---- MODULE Spec2Model ----
(***************************************************************************)
(* Model of the NLP term injection engine (analyzeNLPCoverage,             *)
(* findSemanticInsertionPoints, insertTermNaturally, injectHeaderTerms,    *)
(* injectMissingNLPTerms).                                                 *)
(*                                                                         *)
(* Text is modelled by TLA+ strings, on which Len, \o and SubSeq act as    *)
(* length, concatenation and substring.  Markup (an html string, the       *)
(* innerHTML of an element) is a sequence of tokens: a start tag, an end   *)
(* tag or a run of text.  A parsed document is the same sequence with an   *)
(* element identity on every start tag.                                    *)
(*                                                                         *)
(* The documents carry no attributes, comments or character references,    *)
(* and their markup is well nested, so that parsing keeps the tokens and   *)
(* merges adjacent text.  The em dash of the heading separator is written  *)
(* "-".  Math.random() is a nondeterministic choice.                       *)
(*                                                                         *)
(* The module also models the processing lock of the store (acquireLock,   *)
(* releaseLock) and the request deduplication (dedupeRequest) of           *)
(* src/store.ts.  JavaScript runs one handler at a time, so each call is   *)
(* one step; Date.now() is the variable now.                               *)
(***************************************************************************)
EXTENDS Integers, Sequences, FiniteSets, TLC

VARIABLES
    pc,              \* position of the call being modelled
    html,            \* argument html (markup)
    neuronTerms,     \* argument neuronTerms / terms (sequence of term records)
    options,         \* argument options of injectMissingNLPTerms
    analysis,        \* value returned by analyzeNLPCoverage (initialAnalysis in a run)
    doc,             \* the parsed document of the run
    nextId,          \* identity the next parsed Element gets
    headings,        \* injectHeaderTerms: the h2/h3 Elements, in document order
    sortedTerms,     \* injectHeaderTerms: the header terms by importance
    headerIdx,       \* injectHeaderTerms: position of the outer loop
    headerInjected,  \* injectHeaderTerms: injected
    termsToInject,   \* work list of the run
    termIdx,         \* position of the body loop in termsToInject
    insertionCount,  \* insertionCount of the body loop
    insertionCounts, \* Map<Element, number> of insertions per element
    termsAdded,
    termsFailed,
    insertionDetails,
    result,          \* the NLPInjectionResult returned, once the run is over
    bodyInsertions,  \* auxiliary: body insertions received per block of the input
    lastBlock,       \* auxiliary: Element the last body insertion selected
    processingLock,  \* store: state.processingLock
    now,             \* Date.now(), in milliseconds
    lockReturn,      \* the last call of acquireLock and what it returned
    releaseCall,     \* the last call of releaseLock
    inflightRequests,\* store: Map<string, Promise> of the requests in flight
    promises,        \* the promises dedupeRequest has created, by identity
    dedupeReturn,    \* the last call of dedupeRequest and what it returned
    queue,           \* RateLimitedQueue: this.queue, the waiting requests
    requests,        \* the requests passed to enqueue, by identity
    processing,      \* RateLimitedQueue: this.processing
    lastRequestTime, \* RateLimitedQueue: this.lastRequestTime
    requestCount,    \* RateLimitedQueue: this.requestCount
    windowStart,     \* RateLimitedQueue: this.windowStart
    loopAt,          \* position of processQueue: the await it stands at
    wakeAt,          \* the instant the timer processQueue awaits is due
    started,         \* auxiliary: the requests started, with instant and window
    clears,          \* auxiliary: number of calls of clear
    pollResponses,   \* pollNeuronQuery: the outcomes of the polls made so far
    pollState,       \* pollNeuronQuery: polling, returned or failed
    pollError,       \* pollNeuronQuery: message of the Error it failed with
    semanticCache,   \* state.semanticCache: per type, its entries in property order
    cacheCall,       \* auxiliary: the last call of set- or getSemanticCache
    cacheWrites      \* auxiliary: number of calls of setSemanticCache

(***************************************************************************)
(* Bounds of the model                                                     *)
(***************************************************************************)
MaxRepeat == 40          \* longest term list handed to analyzeNLPCoverage
MaxListLen == 3          \* longest term list cut from the pool of a run
MaxInsertionsOption == 2 \* largest maxInsertions option besides the default

(***************************************************************************)
(* Characters and string primitives                                        *)
(***************************************************************************)
charAt(s, i) == SubSeq(s, i, i)

UpperChars == "ABCDEFGHIJKLMNOPQRSTUVWXYZ"
LowerChars == "abcdefghijklmnopqrstuvwxyz"
DigitChars == "0123456789_"

UpperSet == {charAt(UpperChars, k) : k \in 1..26}

\* \w of a JS regular expression: [A-Za-z0-9_]
WordChars == UpperSet \cup {charAt(LowerChars, k) : k \in 1..26}
                      \cup {charAt(DigitChars, k) : k \in 1..11}

\* \s of a JS regular expression (the white space the documents use)
Whitespace == {" ", "\n", "\t"}

\* [.!?]
SentenceTerminators == {".", "!", "?"}

LowerMap == [c \in UpperSet |->
               charAt(LowerChars, CHOOSE k \in 1..26 : charAt(UpperChars, k) = c)]

hasUpperCase(s) == \E i \in 1..Len(s) : charAt(s, i) \in UpperSet

\* String.prototype.toLowerCase, by halves; a piece without a capital
\* letter is its own lower case
RECURSIVE toLowerCase(_)
toLowerCase(s) ==
    IF ~hasUpperCase(s) THEN s
    ELSE IF Len(s) = 1 THEN LowerMap[s]
    ELSE LET h == Len(s) \div 2
         IN  toLowerCase(SubSeq(s, 1, h)) \o toLowerCase(SubSeq(s, h + 1, Len(s)))

\* String.prototype.includes
includes(s, p) ==
    \E i \in 1..(Len(s) - Len(p) + 1) : SubSeq(s, i, i + Len(p) - 1) = p

SetMin(S) == CHOOSE x \in S : \A y \in S : x <= y

\* index of the first character that is not white space (Len(s)+1: none)
firstNonSpace(s) ==
    CHOOSE i \in 1..(Len(s) + 1) :
        /\ i = Len(s) + 1 \/ charAt(s, i) \notin Whitespace
        /\ \A j \in 1..(i - 1) : charAt(s, j) \in Whitespace

\* index of the last character that is not white space (0: none)
lastNonSpace(s) ==
    CHOOSE i \in 0..Len(s) :
        /\ i = 0 \/ charAt(s, i) \notin Whitespace
        /\ \A j \in (i + 1)..Len(s) : charAt(s, j) \in Whitespace

\* String.prototype.trimStart, trimEnd, trim
trimStart(s) == SubSeq(s, firstNonSpace(s), Len(s))
trimEnd(s) == SubSeq(s, 1, lastNonSpace(s))
trim(s) == trimEnd(trimStart(s))

\* s.split(/\s+/): the pieces between maximal runs of white space
RECURSIVE splitWhitespace(_)
splitWhitespace(s) ==
    LET ws == {i \in 1..Len(s) : charAt(s, i) \in Whitespace}
    IN  IF ws = {} THEN <<s>>
        ELSE LET a == SetMin(ws)
                 rest == {i \in (a + 1)..Len(s) : charAt(s, i) \notin Whitespace}
                 b == IF rest = {} THEN Len(s) + 1 ELSE SetMin(rest)
             IN  <<SubSeq(s, 1, a - 1)>> \o splitWhitespace(SubSeq(s, b, Len(s)))

\* s.split(sep) for a set of one-character separators, each separator run
\* of the regular expression [sep]+ counted once
RECURSIVE splitRuns(_, _)
splitRuns(s, seps) ==
    LET at == {i \in 1..Len(s) : charAt(s, i) \in seps}
    IN  IF at = {} THEN <<s>>
        ELSE LET a == SetMin(at)
                 rest == {i \in (a + 1)..Len(s) : charAt(s, i) \notin seps}
                 b == IF rest = {} THEN Len(s) + 1 ELSE SetMin(rest)
             IN  <<SubSeq(s, 1, a - 1)>> \o splitRuns(SubSeq(s, b, Len(s)), seps)

\* the assertion \b of a regular expression, between characters i-1 and i
wordBoundary(text, i) ==
    LET before == i > 1 /\ charAt(text, i - 1) \in WordChars
        after  == i <= Len(text) /\ charAt(text, i) \in WordChars
    IN  before # after

\* new RegExp(`\\b${escaped}\\b`, 'gi') matches at position i of text
regexMatchAt(text, pat, i) ==
    /\ i + Len(pat) - 1 <= Len(text)
    /\ SubSeq(text, i, i + Len(pat) - 1) = pat
    /\ wordBoundary(text, i)
    /\ wordBoundary(text, i + Len(pat))

\* the loop  while ((match = regex.exec(textContent)) !== null) :
\* the indices (from 0) of the successive matches, each search resuming
\* behind the previous match
RECURSIVE execPositions(_, _, _)
execPositions(text, pat, from) ==
    LET hits == {i \in from..Len(text) : regexMatchAt(text, pat, i)}
    IN  IF hits = {} THEN <<>>
        ELSE LET m == SetMin(hits)
             IN  <<m - 1>> \o execPositions(text, pat, m + Len(pat))

(***************************************************************************)
(* Numbers                                                                 *)
(***************************************************************************)
RECURSIVE GCD(_, _)
GCD(a, b) == IF b = 0 THEN a ELSE GCD(b, a % b)

\* The fractions u/t (in lowest terms) for which 100*u/t is an exact half
\* and the double (u/t)*100 falls just below it: of all fractions whose
\* percentage is a half (denominators 8, 40 and 200) these four are the
\* ones IEEE-754 division and multiplication round downwards.
HalfRoundedDown == {<<23, 40>>, <<29, 200>>, <<57, 200>>, <<113, 200>>}

\* Math.round((u / t) * 100) in double arithmetic, 0 <= u <= t, t > 0
RoundPercent(u, t) ==
    LET exact == (200 * u + t) \div (2 * t)
        g == GCD(u, t)
    IN  IF <<u \div g, t \div g>> \in HalfRoundedDown THEN exact - 1 ELSE exact

(***************************************************************************)
(* Markup and documents                                                    *)
(***************************************************************************)
\* Tokens of markup.  id is the identity of the Element a start tag was
\* parsed into (0 in a string of markup).  org is auxiliary: the element of
\* the first parse this element's markup descends from; no modelled code
\* reads it.
Open(tag)  == [k |-> "open",  v |-> tag, id |-> 0, org |-> 0]
Close(tag) == [k |-> "close", v |-> tag, id |-> 0, org |-> 0]
Text(s)    == [k |-> "text",  v |-> s,   id |-> 0, org |-> 0]

\* <tag>s</tag>
Elem(tag, inner) == <<Open(tag)>> \o inner \o <<Close(tag)>>

RECURSIVE countOpen(_)
countOpen(m) ==
    IF m = <<>> THEN 0
    ELSE (IF m[1].k = "open" THEN 1 ELSE 0) + countOpen(Tail(m))

\* adjacent runs of text form one text node
RECURSIVE mergeText(_)
mergeText(m) ==
    IF Len(m) < 2 THEN m
    ELSE IF m[1].k = "text" /\ m[2].k = "text"
         THEN mergeText(<<Text(m[1].v \o m[2].v)>> \o SubSeq(m, 3, Len(m)))
         ELSE <<m[1]>> \o mergeText(Tail(m))

\* an empty run of text is no node
dropEmptyText(m) == SelectSeq(m, LAMBDA t : ~(t.k = "text" /\ t.v = ""))

\* new DOMParser().parseFromString(html, 'text/html') and the fragment
\* parser behind element.innerHTML = ... : every start tag becomes a new
\* Element, numbered from firstId in document order
RECURSIVE assignIds(_, _)
assignIds(m, firstId) ==
    IF m = <<>> THEN <<>>
    ELSE IF m[1].k = "open"
         THEN <<[m[1] EXCEPT !.id = firstId,
                             !.org = IF m[1].org = 0 THEN firstId ELSE m[1].org]>>
              \o assignIds(Tail(m), firstId + 1)
         ELSE <<m[1]>> \o assignIds(Tail(m), firstId)

parseFromString(m, firstId) == assignIds(mergeText(dropEmptyText(m)), firstId)

\* serialisation of nodes to a string of markup: identities are lost
serialize(d) == [i \in 1..Len(d) |-> [d[i] EXCEPT !.id = 0]]

\* the markup as the caller receives it
plainMarkup(d) == [i \in 1..Len(d) |-> [d[i] EXCEPT !.id = 0, !.org = 0]]

\* index of the end tag of the element whose start tag is at i
RECURSIVE scanClose(_, _, _)
scanClose(d, j, depth) ==
    IF d[j].k = "open" THEN scanClose(d, j + 1, depth + 1)
    ELSE IF d[j].k = "close"
         THEN (IF depth = 0 THEN j ELSE scanClose(d, j + 1, depth - 1))
         ELSE scanClose(d, j + 1, depth)

matchClose(d, i) == scanClose(d, i + 1, 0)

\* node.textContent of the nodes d[i..j]
RECURSIVE textOfRange(_, _, _)
textOfRange(d, i, j) ==
    IF i > j THEN ""
    ELSE (IF d[i].k = "text" THEN d[i].v ELSE "") \o textOfRange(d, i + 1, j)

\* doc.body.textContent
bodyTextContent(d) == textOfRange(d, 1, Len(d))

\* element.textContent, element = the start tag at i
textContent(d, i) == textOfRange(d, i + 1, matchClose(d, i) - 1)

\* element.innerHTML (read)
innerHTML(d, i) == serialize(SubSeq(d, i + 1, matchClose(d, i) - 1))

(***************************************************************************)
(* Term records                                                            *)
(***************************************************************************)
\* A NeuronTerm is a record with fields term and type and, when the
\* importance is present, importance.

\* term.importance || 50
importanceOr50(t) ==
    IF "importance" \in DOMAIN t /\ t.importance # 0 THEN t.importance ELSE 50

\* { ...term, count, positions }
withCount(t, count, positions) ==
    [f \in DOMAIN t \cup {"count", "positions"} |->
        IF f = "count" THEN count
        ELSE IF f = "positions" THEN positions
        ELSE t[f]]

\* the term record a usedTerms entry was spread from
termOf(u) == [f \in DOMAIN u \ {"count", "positions"} |-> u[f]]

RECURSIVE SumSeq(_)
SumSeq(s) == IF s = <<>> THEN 0 ELSE s[1] + SumSeq(Tail(s))

(***************************************************************************)
(* analyzeNLPCoverage                                                      *)
(***************************************************************************)
EmptyAnalysis ==
    [score |-> 100, weightedScore |-> 100, usedTerms |-> <<>>,
     missingTerms |-> <<>>, criticalMissing |-> <<>>, headerMissing |-> <<>>,
     bodyMissing |-> <<>>]

\* positions of one term in the lowercased text
termPositions(text, t) == execPositions(text, toLowerCase(t.term), 1)

Indices(s) == [i \in 1..Len(s) |-> i]

\* the terms pushed to usedTerms (count > 0), by index
usedIndices(pos) == SelectSeq(Indices(pos), LAMBDA i : Len(pos[i]) > 0)

\* variant: every term is pushed to missingTerms, the used ones as well
missingIndices_Every(pos) == Indices(pos)

\* the terms pushed to missingTerms (else branch), by index
missingIndices(pos) == SelectSeq(Indices(pos), LAMBDA i : ~(Len(pos[i]) > 0))

\* variant: a term without importance adds nothing to totalWeight
totalWeightOf_PresentOnly(terms) ==
    SumSeq([i \in 1..Len(terms) |->
              IF "importance" \in DOMAIN terms[i] THEN terms[i].importance ELSE 0])

\* totalWeight += weight, over all terms
totalWeightOf(terms) == SumSeq([i \in 1..Len(terms) |-> importanceOr50(terms[i])])

\* usedWeight += weight, over the terms with count > 0
usedWeightOf(terms, pos) ==
    SumSeq([i \in 1..Len(terms) |->
              IF Len(pos[i]) > 0 THEN importanceOr50(terms[i]) ELSE 0])

\* variant: only the empty term list is degenerate
degenerate_TermsOnly(m, terms) == Len(terms) = 0

\* !html || terms.length === 0
degenerate(m, terms) == m = <<>> \/ Len(terms) = 0

\* the loop  while ((match = regex.exec(textContent)) !== null)  comes to an
\* end: exec leaves lastIndex where a match of length 0 was found, so the
\* pattern \b\b of an empty term matches at the same word boundary for ever
execTerminates(text, pat) ==
    ~(pat = "" /\ \E i \in 1..(Len(text) + 1) : wordBoundary(text, i))

\* the call analyzeNLPCoverage(m, terms) returns
analysisReturns(m, terms) ==
    ~\E i \in 1..Len(terms) :
        /\ terms[i].term = ""
        /\ ~degenerate(m, terms)
        /\ ~execTerminates(toLowerCase(bodyTextContent(parseFromString(m, 1))),
                           toLowerCase(terms[i].term))

analyzeNLPCoverage(m, terms) ==
    IF degenerate(m, terms) THEN EmptyAnalysis
    ELSE
    LET doc0 == parseFromString(m, 1)
        text == toLowerCase(bodyTextContent(doc0))
        pos == [i \in 1..Len(terms) |-> termPositions(text, terms[i])]
        usedIdx == usedIndices(pos)
        missIdx == missingIndices(pos)
        usedTerms == [j \in 1..Len(usedIdx) |->
                        withCount(terms[usedIdx[j]], Len(pos[usedIdx[j]]), pos[usedIdx[j]])]
        missingTerms == [j \in 1..Len(missIdx) |-> terms[missIdx[j]]]
        totalWeight == totalWeightOf(terms)
        usedWeight == usedWeightOf(terms, pos)
    IN  [score |-> IF Len(terms) > 0 THEN RoundPercent(Len(usedTerms), Len(terms)) ELSE 100,
         weightedScore |-> IF totalWeight > 0 THEN RoundPercent(usedWeight, totalWeight) ELSE 100,
         usedTerms |-> usedTerms,
         missingTerms |-> missingTerms,
         criticalMissing |-> SelectSeq(missingTerms, LAMBDA t : importanceOr50(t) >= 80),
         headerMissing |-> SelectSeq(missingTerms, LAMBDA t : t.type \in {"header", "title"}),
         bodyMissing |-> SelectSeq(missingTerms, LAMBDA t : t.type \in {"basic", "extended"})]

(***************************************************************************)
(* Constants of the engine                                                 *)
(***************************************************************************)
DEFAULT_TARGET_COVERAGE == 85
MIN_PARAGRAPH_LENGTH == 80
MAX_PARAGRAPH_LENGTH == 600
MAX_INSERTIONS_PER_PARAGRAPH == 2
DEFAULT_MAX_INSERTIONS == 30
MAX_HEADER_INJECTIONS == 5
MAX_HEADING_LENGTH == 80
SHORT_HEADING_LENGTH == 40
CRITICAL_IMPORTANCE == 80
FORCED_HEADER_IMPORTANCE == 90
MIN_CONTEXT_SCORE == 10

\* Each template is split at its {term} placeholder.  The em dash of the
\* source is written "-".
INSERTION_TEMPLATES ==
    [
     definition |-> <<
           [pre |-> "", post |-> " refers to the process of"],
           [pre |-> "Understanding ", post |-> " is essential because"],
           [pre |-> "", post |-> " plays a crucial role in"],
           [pre |-> "The concept of ", post |-> " involves"],
           [pre |-> "When examining ", post |-> ", it's important to note that"] >>,
     importance |-> <<
           [pre |-> "", post |-> " is particularly important for"],
           [pre |-> "Many experts emphasize ", post |-> " as"],
           [pre |-> "The significance of ", post |-> " cannot be overstated-"],
           [pre |-> "", post |-> " directly impacts"],
           [pre |-> "Focusing on ", post |-> " helps ensure"] >>,
     example |-> <<
           [pre |-> "A good example of ", post |-> " is"],
           [pre |-> "", post |-> " can be seen in"],
           [pre |-> "Consider how ", post |-> " applies to"],
           [pre |-> "", post |-> " is commonly used when"],
           [pre |-> "Real-world applications of ", post |-> " include"] >>,
     comparison |-> <<
           [pre |-> "Unlike traditional approaches, ", post |-> ""],
           [pre |-> "", post |-> " differs from other methods because"],
           [pre |-> "Compared to alternatives, ", post |-> ""],
           [pre |-> "What sets ", post |-> " apart is"],
           [pre |-> "", post |-> " stands out due to"] >>,
     action |-> <<
           [pre |-> "To implement ", post |-> ", you should"],
           [pre |-> "Start by focusing on ", post |-> ""],
           [pre |-> "", post |-> " requires careful attention to"],
           [pre |-> "When applying ", post |-> ", consider"],
           [pre |-> "", post |-> " works best when"] >>,
     transition |-> <<
           [pre |-> "This relates directly to ", post |-> ", which"],
           [pre |-> "Building on this, ", post |-> ""],
           [pre |-> "Furthermore, ", post |-> ""],
           [pre |-> "In addition to the above, ", post |-> ""],
           [pre |-> "", post |-> " also contributes to"] >>,
     expert |-> <<
           [pre |-> "Industry experts recommend ", post |-> " for"],
           [pre |-> "Research supports the use of ", post |-> " in"],
           [pre |-> "Studies show that ", post |-> ""],
           [pre |-> "According to best practices, ", post |-> ""],
           [pre |-> "Professionals often rely on ", post |-> " to"] >> ]

TERM_CLUSTERS ==
    <<
      <<"ranking", "search", "google", "keyword", "optimization", "serp", "traffic", "visibility">>,
      <<"writing", "article", "blog", "post", "copy", "text", "words", "quality">>,
      <<"strategy", "campaign", "audience", "conversion", "leads", "funnel", "engagement">>,
      <<"code", "development", "api", "implementation", "system", "software", "integration">>,
      <<"wellness", "fitness", "nutrition", "medical", "treatment", "symptoms", "diagnosis">>,
      <<"company", "revenue", "profit", "growth", "market", "industry", "enterprise">>,
      <<"money", "investment", "budget", "cost", "price", "savings", "roi", "return">>,
      <<"product", "store", "shop", "cart", "checkout", "shipping", "order", "purchase">> >>

TemplateCategories ==
    <<"definition", "importance", "example", "comparison", "action",
      "transition", "expert">>

commonRelated ==
    {"important", "effective", "strategy", "approach", "method", "process",
     "benefit", "result"}

forbiddenTags ==
    {"A", "H1", "H2", "H3", "H4", "H5", "H6", "BLOCKQUOTE", "CODE", "PRE",
     "SCRIPT", "STYLE"}

(***************************************************************************)
(* getRelatedTerms                                                         *)
(***************************************************************************)
SeqToSet(s) == {s[i] : i \in 1..Len(s)}

\* matchScore of one cluster
clusterMatchScore(termLower, termWords, clusterTerms) ==
    SumSeq([i \in 1..Len(clusterTerms) |->
        (IF includes(termLower, clusterTerms[i]) \/ includes(clusterTerms[i], termLower)
         THEN 2 ELSE 0)
        + Cardinality({j \in 1..Len(termWords) :
              Len(termWords[j]) > 3 /\ includes(clusterTerms[i], termWords[j])})])

getRelatedTerms(term) ==
    LET termLower == toLowerCase(term)
        termWords == splitWhitespace(termLower)
    IN  UNION {SeqToSet(TERM_CLUSTERS[c]) : c \in
                 {c \in 1..Len(TERM_CLUSTERS) :
                    clusterMatchScore(termLower, termWords, TERM_CLUSTERS[c]) >= 2}}
        \cup commonRelated

(***************************************************************************)
(* findSemanticInsertionPoints                                             *)
(***************************************************************************)
\* indices of the start tags of the elements with one of the tag names,
\* in document order: doc.querySelectorAll(...)
querySelectorAll(d, tags) ==
    SelectSeq(Indices(d), LAMBDA i : d[i].k = "open" /\ d[i].v \in tags)

\* the start tags of the ancestors of the element at i
ancestors(d, i) ==
    {j \in 1..(i - 1) : d[j].k = "open" /\ matchClose(d, j) > i}

isInsideSpecialElement(d, i) ==
    \E j \in ancestors(d, i) : d[j].v \in forbiddenTags

\* existingInsertions.get(element) || 0
insertionsOf(existingInsertions, id) ==
    IF id \in DOMAIN existingInsertions THEN existingInsertions[id] ELSE 0

\* "Skip if too many insertions already"
saturated(currentInsertions) == currentInsertions >= MAX_INSERTIONS_PER_PARAGRAPH

\* contextScore of a text with the related terms found in it
contextScoreOf(text, foundRelated, termWords) ==
    15 * Cardinality(foundRelated)
    + 10 * Cardinality({j \in 1..Len(termWords) :
                           Len(termWords[j]) > 3 /\ includes(text, termWords[j])})
    + (IF includes(text, ".")
          /\ Cardinality({i \in 1..Len(text) : charAt(text, i) = "."}) + 1 >= 2
       THEN 5 ELSE 0)

positionOf(text) ==
    LET sentences == SelectSeq(splitRuns(text, SentenceTerminators),
                               LAMBDA x : Len(trim(x)) > 20)
    IN  IF Len(sentences) >= 3 THEN "middle" ELSE "end"

\* the tests of the loop body that skip a candidate element before its
\* score is computed
skipsElement(d, i, text, termLower, existingInsertions) ==
    \/ saturated(insertionsOf(existingInsertions, d[i].id))
    \/ Len(text) < MIN_PARAGRAPH_LENGTH
    \/ Len(text) > MAX_PARAGRAPH_LENGTH
    \/ includes(text, termLower)
    \/ isInsideSpecialElement(d, i)

\* one iteration of the loop over the candidate elements: the insertion
\* points it pushes (one or none)
insertionPointsAt(d, i, termLower, relatedTerms, termWords, existingInsertions) ==
    LET text == toLowerCase(textContent(d, i))
    IN  IF skipsElement(d, i, text, termLower, existingInsertions) THEN <<>>
        ELSE LET foundRelated == {r \in relatedTerms : includes(text, r)}
                 contextScore == contextScoreOf(text, foundRelated, termWords)
             IN  IF contextScore < MIN_CONTEXT_SCORE THEN <<>>
                 ELSE << [element |-> d[i].id,
                          elementType |-> toLowerCase(d[i].v),
                          textContent |-> text,
                          relatedTerms |-> foundRelated,
                          insertionScore |-> contextScore,
                          position |-> positionOf(text)] >>

RECURSIVE Flatten(_)
Flatten(ss) == IF ss = <<>> THEN <<>> ELSE ss[1] \o Flatten(Tail(ss))

\* variant: the insertion points stay in document order
sortByScoreDesc_Unsorted(ps) == ps

\* Array.prototype.sort((a, b) => b.insertionScore - a.insertionScore),
\* a stable sort
RECURSIVE sortByScoreDesc(_)
sortByScoreDesc(ps) ==
    IF ps = <<>> THEN <<>>
    ELSE LET best == SetMin({i \in 1..Len(ps) :
                        \A j \in 1..Len(ps) : ps[j].insertionScore <= ps[i].insertionScore})
         IN  <<ps[best]>> \o
             sortByScoreDesc(SubSeq(ps, 1, best - 1) \o SubSeq(ps, best + 1, Len(ps)))

findSemanticInsertionPoints(d, term, existingInsertions) ==
    LET termLower == toLowerCase(term.term)
        termWords == splitWhitespace(termLower)
        relatedTerms == getRelatedTerms(termLower)
        paragraphs == querySelectorAll(d, {"P", "LI", "TD"})
    IN  sortByScoreDesc(Flatten([j \in 1..Len(paragraphs) |->
            insertionPointsAt(d, paragraphs[j], termLower, relatedTerms, termWords,
                              existingInsertions)]))

(***************************************************************************)
(* insertTermNaturally                                                     *)
(***************************************************************************)
\* variant: the number of related terms is looked at before the term type
templateCategoriesFor_RelatedFirst(term, point) ==
    IF Cardinality(point.relatedTerms) >= 2 THEN {"example"}
    ELSE IF term.type \in {"title", "header"} THEN {"importance", "definition"}
    ELSE IF point.position = "start" THEN {"action"}
    ELSE IF point.position = "end" THEN {"transition"}
    ELSE SeqToSet(TemplateCategories)

\* the template categories Math.random() can select for the insertion
templateCategoriesFor(term, point) ==
    IF term.type \in {"title", "header"} THEN {"importance", "definition"}
    ELSE IF Cardinality(point.relatedTerms) >= 2 THEN {"example"}
    ELSE IF point.position = "start" THEN {"action"}
    ELSE IF point.position = "end" THEN {"transition"}
    ELSE SeqToSet(TemplateCategories)

\* template.replace('{term}', `<strong>${termText}</strong>`)
insertionTextOf(template, termText) ==
    <<Text(template.pre), Open("STRONG"), Text(termText), Close("STRONG"),
      Text(template.post)>>

\* the pieces of a run of text between the white space that follows a
\* sentence terminator: s.split(/(?<=[.!?])\s+/)
RECURSIVE splitSentenceText(_)
splitSentenceText(s) ==
    LET cut == {i \in 2..Len(s) : /\ charAt(s, i) \in Whitespace
                                  /\ charAt(s, i - 1) \in SentenceTerminators}
    IN  IF cut = {} THEN <<s>>
        ELSE LET a == SetMin(cut)
                 rest == {i \in (a + 1)..Len(s) : charAt(s, i) \notin Whitespace}
                 b == IF rest = {} THEN Len(s) + 1 ELSE SetMin(rest)
             IN  <<SubSeq(s, 1, a - 1)>> \o splitSentenceText(SubSeq(s, b, Len(s)))

\* originalHtml.split(/(?<=[.!?])\s+/) on markup: a tag never ends a chunk,
\* as the character before the white space has to be a terminator
RECURSIVE splitSentences(_, _, _)
splitSentences(m, done, cur) ==
    IF m = <<>> THEN Append(done, cur)
    ELSE IF m[1].k = "text"
         THEN LET ps == splitSentenceText(m[1].v)
                  n == Len(ps)
              IN  IF n = 1 THEN splitSentences(Tail(m), done, Append(cur, m[1]))
                  ELSE splitSentences(Tail(m),
                          done \o <<Append(cur, Text(ps[1]))>>
                               \o [j \in 1..(n - 2) |-> <<Text(ps[j + 1])>>],
                          <<Text(ps[n])>>)
         ELSE splitSentences(Tail(m), done, Append(cur, m[1]))

\* chunks.join(' ')
RECURSIVE joinWithSpace(_)
joinWithSpace(chunks) ==
    IF chunks = <<>> THEN <<>>
    ELSE IF Len(chunks) = 1 THEN chunks[1]
    ELSE chunks[1] \o <<Text(" ")>> \o joinWithSpace(Tail(chunks))

\* originalHtml.trim(): white space is stripped up to the first and from
\* the last character that is not white space, a tag included
trimMarkup(m) ==
    LET n == Len(m)
        left == IF n > 0 /\ m[1].k = "text"
                THEN [m EXCEPT ![1] = Text(trimStart(m[1].v))] ELSE m
    IN  IF n > 0 /\ left[n].k = "text"
        THEN [left EXCEPT ![n] = Text(trimEnd(left[n].v))] ELSE left

\* variant: the new sentence is appended whatever the position
newHtmlOf_AlwaysAppends(originalHtml, insertionText, position) ==
    trimMarkup(originalHtml) \o <<Text(" ")>> \o insertionText

\* newHtml of the three placements
newHtmlOf(originalHtml, insertionText, position) ==
    LET sentences == splitSentences(originalHtml, <<>>, <<>>)
    IN  IF position = "end" \/ Len(sentences) = 1
        THEN trimMarkup(originalHtml) \o <<Text(" ")>> \o insertionText
        ELSE IF position = "start"
        THEN insertionText \o <<Text(" ")>> \o trimMarkup(originalHtml)
        ELSE LET midPoint == Len(sentences) \div 2
                 beforeSentences == joinWithSpace(SubSeq(sentences, 1, midPoint))
                 afterSentences == joinWithSpace(SubSeq(sentences, midPoint + 1, Len(sentences)))
             IN  beforeSentences \o <<Text(" ")>> \o insertionText
                                 \o <<Text(" ")>> \o afterSentences

indexOfElement(d, id) == CHOOSE i \in 1..Len(d) : d[i].k = "open" /\ d[i].id = id

\* variant: the write also removes the siblings that follow the element
setInnerHTML_DropsSiblings(d, i, newHtml, firstId) ==
    LET up == ancestors(d, i)
        parentEnd == IF up = {} THEN Len(d) + 1
                     ELSE matchClose(d, CHOOSE a \in up : \A b \in up : b <= a)
    IN  SubSeq(d, 1, i) \o parseFromString(newHtml, firstId)
                        \o <<d[matchClose(d, i)]>> \o SubSeq(d, parentEnd, Len(d))

\* element.innerHTML = newHtml: the children of the element are replaced by
\* the nodes parsed from newHtml, new Elements all of them
setInnerHTML(d, i, newHtml, firstId) ==
    SubSeq(d, 1, i) \o parseFromString(newHtml, firstId)
                    \o SubSeq(d, matchClose(d, i), Len(d))

\* variant: a block of a single chunk is reported as not splice-able
insertTermNaturally_OneChunkFails(d, term, point, template, firstId) ==
    LET i == indexOfElement(d, point.element)
        originalHtml == innerHTML(d, i)
        insertionText == insertionTextOf(template, term.term)
        newHtml == newHtmlOf(originalHtml, insertionText, point.position)
    IN  IF Len(splitSentences(originalHtml, <<>>, <<>>)) <= 1
        THEN [success |-> FALSE, template |-> "", doc |-> d, nextId |-> firstId]
        ELSE [success |-> TRUE,
              template |-> template.pre \o "{term}" \o template.post,
              doc |-> setInnerHTML(d, i, newHtml, firstId),
              nextId |-> firstId + countOpen(newHtml)]

\* the document after insertTermNaturally(doc, term, insertionPoint) with
\* the template Math.random() selected
insertTermNaturally(d, term, point, template, firstId) ==
    LET i == indexOfElement(d, point.element)
        originalHtml == innerHTML(d, i)
        insertionText == insertionTextOf(template, term.term)
        newHtml == newHtmlOf(originalHtml, insertionText, point.position)
    IN  IF Len(splitSentences(originalHtml, <<>>, <<>>)) = 0
        THEN [success |-> FALSE, template |-> "", doc |-> d, nextId |-> firstId]
        ELSE [success |-> TRUE,
              template |-> template.pre \o "{term}" \o template.post,
              doc |-> setInnerHTML(d, i, newHtml, firstId),
              nextId |-> firstId + countOpen(newHtml)]

(***************************************************************************)
(* injectHeaderTerms                                                       *)
(***************************************************************************)
\* [...terms].sort((a, b) => (b.importance || 50) - (a.importance || 50)),
\* a stable sort
RECURSIVE sortByImportanceDesc(_)
sortByImportanceDesc(ts) ==
    IF ts = <<>> THEN <<>>
    ELSE LET best == SetMin({i \in 1..Len(ts) :
                        \A j \in 1..Len(ts) : importanceOr50(ts[j]) <= importanceOr50(ts[i])})
         IN  <<ts[best]>> \o
             sortByImportanceDesc(SubSeq(ts, 1, best - 1) \o SubSeq(ts, best + 1, Len(ts)))

\* variant: a term of exactly the limit counts as below it
importanceBelow_Inclusive(t, n) == "importance" \in DOMAIN t /\ t.importance <= n

\* term.importance < 90, false when the importance is undefined
importanceBelow(t, n) == "importance" \in DOMAIN t /\ t.importance < n

\* the tests of the inner loop that pass over a heading
skipsHeading(d, h, term) ==
    LET termLower == toLowerCase(term.term)
        headingText == toLowerCase(textContent(d, h))
        termWords == splitWhitespace(termLower)
        relevance == Cardinality({j \in 1..Len(termWords) :
                         Len(termWords[j]) > 3 /\ includes(headingText, termWords[j])})
    IN  \/ includes(headingText, termLower)
        \/ Len(headingText) > MAX_HEADING_LENGTH
        \/ (relevance = 0 /\ importanceBelow(term, FORCED_HEADER_IMPORTANCE))

\* the heading text after the injection; coin is Math.random() > 0.5
injectedHeadingText(currentText, termText, coin) ==
    LET separator == IF includes(currentText, ":") THEN " - " ELSE ": "
    IN  IF coin /\ Len(currentText) < SHORT_HEADING_LENGTH
        THEN currentText \o separator \o termText
        ELSE termText \o " in " \o currentText

\* variant: the fifth of the budget without the cap of 5
headerBudget_Uncapped(maxInsertions) == (maxInsertions + 4) \div 5

\* Math.min(5, Math.ceil(maxInsertions * 0.2))
headerBudget(maxInsertions) ==
    LET ceil == (maxInsertions + 4) \div 5
    IN  IF ceil < MAX_HEADER_INJECTIONS THEN ceil ELSE MAX_HEADER_INJECTIONS

(***************************************************************************)
(* Inputs of the analyzer calls                                            *)
(***************************************************************************)
Term(text, type, imp) == [term |-> text, type |-> type, importance |-> imp]
TermNoImportance(text, type) == [term |-> text, type |-> type]

AnalyzeContents ==
    { <<>>,
      Elem("P", <<Text("SEO tips and examples of cats.")>>),
      Elem("H2", <<Text("Content Writing")>>) \o Elem("P", <<Text("seo for cats")>>) }

AnalyzeImportances == {0, 17, 23, 100}

AnalyzeTerms ==
    { Term(x, ty, imp) : x \in {"seo", "example", "Cats"},
                         ty \in {"basic", "header"}, imp \in AnalyzeImportances }
    \cup { TermNoImportance(x, ty) : x \in {"seo", "example", "Cats"},
                                     ty \in {"basic", "header"} }

\* the i-th of a family of distinct keywords: k01, k02, ...
Keyword(i) ==
    "k" \o charAt(DigitChars, ((i \div 10) % 10) + 1) \o charAt(DigitChars, (i % 10) + 1)

RECURSIVE keywordText(_)
keywordText(n) ==
    IF n = 0 THEN "Keywords:" ELSE keywordText(n - 1) \o " " \o Keyword(n)

\* a paragraph using the first a keywords, and the list of the first n
KeywordContent(a) == Elem("P", <<Text(keywordText(a))>>)
KeywordTerms(n) == [i \in 1..n |-> Term(Keyword(i), "basic", 50)]

\* a content and terms that begin or end with a character that is no word
\* character, or lie inside a longer word
BoundaryContent == Elem("P", <<Text("C++ tips, preexample code and a Q&A.")>>)

BoundaryTerms ==
    { Term(x, "basic", 50) : x \in {"c++", "example", "tips", "q&a", "code"} }

\* all lists of at most two terms against the short contents, and long
\* lists of distinct terms against a content using some of them
AnalyzeInputs ==
    { <<c, l>> : c \in AnalyzeContents,
                 l \in {<<>>} \cup {<<t>> : t \in AnalyzeTerms}
                              \cup {<<t, u>> : t \in AnalyzeTerms, u \in AnalyzeTerms} }
    \cup { <<KeywordContent(a), KeywordTerms(n)>> : a \in 0..MaxRepeat, n \in 3..MaxRepeat }
    \cup { <<BoundaryContent, <<t>> >> : t \in BoundaryTerms }

(***************************************************************************)
(* store.ts: the processing lock                                           *)
(***************************************************************************)
\* lockedAt: null, which  state.processingLock.lockedAt || 0  reads as 0
NullTime == 0

\* lockedBy: null
NullHolder == "null"

DEFAULT_PROCESSING_LOCK ==
    [isLocked |-> FALSE, lockedAt |-> NullTime, lockedBy |-> NullHolder]

\* 10 minutes
LOCK_STALE_MS == 600000

\* variant: a lock counts as stale one millisecond early
lockIsFresh_Early(lockAge) == lockAge < LOCK_STALE_MS - 1

\* lockAge < 600000
lockIsFresh(lockAge) == lockAge < LOCK_STALE_MS

\* acquireLock returns false: the lock is held and not stale
lockRefused(lock, t) == lock.isLocked /\ lockIsFresh(t - lock.lockedAt)

\* the lock acquireLock sets
acquiredLock(t, lockedBy) == [isLocked |-> TRUE, lockedAt |-> t, lockedBy |-> lockedBy]

\* variant: any caller frees the lock
releasedLock_ByAnyone(lock, lockedBy) == DEFAULT_PROCESSING_LOCK

\* the lock after releaseLock(lockedBy)
releasedLock(lock, lockedBy) ==
    IF lock.lockedBy = lockedBy \/ ~lock.isLocked THEN DEFAULT_PROCESSING_LOCK ELSE lock

\* the callers of the lock
LockCallers == {"A", "B"}

\* the instants at which calls are made: an acquisition at the first or the
\* second of them is 599999, 600000 and 600001 ms old at later ones
FirstInstant == 1000

Instants ==
    {FirstInstant + d : d \in {0, 1, 599999, 600000, 600001, 1200000, 1200001}}

NoLockReturn == [caller |-> NullHolder, value |-> FALSE, at |-> NullTime]

\* no call of releaseLock yet; flip tells one call from the next
NoReleaseCall == [caller |-> NullHolder, at |-> NullTime, flip |-> FALSE]

LockInit ==
    /\ processingLock = DEFAULT_PROCESSING_LOCK
    /\ now = FirstInstant
    /\ lockReturn = NoLockReturn
    /\ releaseCall = NoReleaseCall

(***************************************************************************)
(* store.ts: request deduplication                                         *)
(***************************************************************************)
MaxDedupeCalls == 4

RequestKeys == {"k1", "k2"}

\* Map.get(key), 0 for undefined
mapGet(m, key) == IF key \in DOMAIN m THEN m[key] ELSE 0

\* Map.set(key, value)
mapSet(m, key, value) == [k \in DOMAIN m \cup {key} |-> IF k = key THEN value ELSE m[k]]

\* variant: delete leaves the map as it is
mapDelete_Keeps(m, key) == m

\* Map.delete(key)
mapDelete(m, key) == [k \in DOMAIN m \ {key} |-> m[k]]

EmptyMap == [k \in {} |-> 0]

NoDedupeReturn == [call |-> 0, key |-> "", promise |-> 0, invoked |-> FALSE]

DedupeInit ==
    /\ inflightRequests = EmptyMap
    /\ promises = <<>>
    /\ dedupeReturn = NoDedupeReturn

(***************************************************************************)
(* store.ts: RateLimitedQueue                                              *)
(***************************************************************************)
MaxEnqueues == 3

MaxClears == 1

\* new RateLimitedQueue(maxRequestsPerMinute, minDelayMs)
maxRequestsPerMinute == 2

minDelayMs == 100

\* the length of the rate window, and the margin added to the wait
RATE_WINDOW_MS == 60000

RATE_WAIT_MARGIN_MS == 100

\* the priorities requests are enqueued with (5 is the default)
Priorities == {1, 5}

\* the instants at which calls are made and promises settle, besides the
\* instants at which timers are due: within and past the minimum delay
\* after the first instant, and one and two rate windows later
QueueInstants == {FirstInstant + d : d \in {50, 100, 60000, 60050, 120000}}

\* a request as enqueue creates it
QueuedRequest(priority) == [priority |-> priority, state |-> "waiting"]

\* the states of a request whose promise has settled: resolved with its
\* result, rejected with its own error, rejected with 'Queue cleared'
Settled == {"resolved", "rejected", "cleared"}

\* variant: every request goes to the end of the queue
insertByPriority_AtEnd(q, reqs, id) == Append(q, id)

\* "Insert by priority (higher = sooner)": findIndex, then push or splice
insertByPriority(q, reqs, id) ==
    LET lower == {k \in 1..Len(q) : reqs[q[k]].priority < reqs[id].priority}
    IN  IF lower = {} THEN Append(q, id)
        ELSE SubSeq(q, 1, SetMin(lower) - 1) \o <<id>>
             \o SubSeq(q, SetMin(lower), Len(q))

\* variant: a full window does not hold a request back
rateLimitReached_Never(count) == FALSE

\* this.requestCount >= this.maxRequestsPerMinute
rateLimitReached(count) == count >= maxRequestsPerMinute

\* the fields of the queue object and the position of its loop
QueueState ==
    [queue |-> queue, requests |-> requests, processing |-> processing,
     lastRequestTime |-> lastRequestTime, requestCount |-> requestCount,
     windowStart |-> windowStart, loopAt |-> loopAt, wakeAt |-> wakeAt,
     started |-> started]

\* lines 1114-1118: shift, lastRequestTime, requestCount++, and the call of
\* execute.  With an empty queue shift() is undefined: request.execute
\* throws a TypeError inside try, request.reject throws another one inside
\* catch, and the loop ends without resetting this.processing.
shiftAndStart(S, t) ==
    IF S.queue = <<>>
    THEN [S EXCEPT !.lastRequestTime = t,
                   !.requestCount = @ + 1,
                   !.loopAt = "crashed"]
    ELSE [S EXCEPT !.queue = Tail(@),
                   !.lastRequestTime = t,
                   !.requestCount = @ + 1,
                   !.loopAt = "executing",
                   !.requests[Head(S.queue)].state = "executing",
                   !.started = Append(@, [id |-> Head(S.queue), at |-> t,
                                          window |-> S.windowStart])]

\* lines 1095-1098: the window is reset once it is 60 seconds old
windowAt(S, t) ==
    IF t - S.windowStart >= RATE_WINDOW_MS
    THEN [S EXCEPT !.windowStart = t, !.requestCount = 0]
    ELSE S

\* the loop of processQueue from its test to the next await, at instant t
loopHead(S, t) ==
    IF S.queue = <<>>
    THEN [S EXCEPT !.processing = FALSE, !.loopAt = "idle"]
    ELSE IF rateLimitReached(windowAt(S, t).requestCount)
    THEN [windowAt(S, t) EXCEPT
             !.loopAt = "rateWait",
             !.wakeAt = t + RATE_WINDOW_MS - (t - windowAt(S, t).windowStart)
                          + RATE_WAIT_MARGIN_MS]
    ELSE IF t - S.lastRequestTime < minDelayMs
    THEN [windowAt(S, t) EXCEPT
             !.loopAt = "delayWait",
             !.wakeAt = t + minDelayMs - (t - S.lastRequestTime)]
    ELSE shiftAndStart(windowAt(S, t), t)

\* variant: a call enters the loop while another call is in it
processQueue_Reentrant(S, t) ==
    IF S.queue = <<>> THEN S
    ELSE loopHead([S EXCEPT !.processing = TRUE], t)

\* processQueue() as enqueue calls it, line 1089
processQueue(S, t) ==
    IF S.processing \/ S.queue = <<>> THEN S
    ELSE loopHead([S EXCEPT !.processing = TRUE], t)

\* the fields of the queue object take the values of S
queueBecomes(S) ==
    /\ queue' = S.queue
    /\ requests' = S.requests
    /\ processing' = S.processing
    /\ lastRequestTime' = S.lastRequestTime
    /\ requestCount' = S.requestCount
    /\ windowStart' = S.windowStart
    /\ loopAt' = S.loopAt
    /\ wakeAt' = S.wakeAt
    /\ started' = S.started

\* a queue constructed at the first instant
QueueInit ==
    /\ queue = <<>>
    /\ requests = <<>>
    /\ processing = FALSE
    /\ lastRequestTime = 0
    /\ requestCount = 0
    /\ windowStart = FirstInstant
    /\ loopAt = "idle"
    /\ wakeAt = 0
    /\ started = <<>>
    /\ clears = 0

(***************************************************************************)
(* part_001: pollNeuronQuery                                               *)
(***************************************************************************)
\* argument maxAttempts of the call
maxAttempts == 3

\* what one poll can meet: fetchWithCors throws, or it returns data with a
\* status and, for status 'error', with or without a message
FetchFailed == [kind |-> "throws", status |-> "", message |-> ""]

PollData(status, message) == [kind |-> "data", status |-> status, message |-> message]

PollOutcomes ==
    {FetchFailed, PollData("ready", ""), PollData("in progress", ""),
     PollData("not found", ""), PollData("error", ""),
     PollData("error", "keyword rejected"), PollData("error", "Credits exhausted")}

\* the message of the Error thrown inside try for a poll, "" when none is
pollThrows(outcome) ==
    IF outcome.kind = "throws" THEN "All fetch methods failed (CORS blocked)"
    ELSE IF outcome.status = "not found" THEN "NeuronWriter query not found or expired"
    ELSE IF outcome.status = "error"
    THEN "NeuronWriter analysis error: "
         \o (IF outcome.message # "" THEN outcome.message ELSE "Unknown")
    ELSE ""

\* the test of the catch block, lines 217-219
rethrown(message) ==
    \/ includes(message, "API KEY")
    \/ includes(message, "Forbidden")
    \/ includes(message, "Credits")

\* the Error after the loop, line 225
timeoutMessage ==
    "NeuronWriter: Query polling timed out after " \o ToString(maxAttempts)
    \o " attempts"

\* one iteration of the loop, and the throw after the loop when the
\* iteration was the last: the state and the error of the call after it
afterPoll(outcome, attempts) ==
    IF outcome.kind = "data" /\ outcome.status = "ready"
    THEN [state |-> "returned", error |-> ""]
    ELSE IF pollThrows(outcome) # "" /\ rethrown(pollThrows(outcome))
    THEN [state |-> "failed", error |-> pollThrows(outcome)]
    ELSE IF attempts >= maxAttempts
    THEN [state |-> "failed", error |-> timeoutMessage]
    ELSE [state |-> "polling", error |-> ""]

PollInit ==
    /\ pollResponses = <<>>
    /\ pollState = "polling"
    /\ pollError = ""

(***************************************************************************)
(* store.ts: the semantic cache                                            *)
(***************************************************************************)
MaxCacheWrites == 2

\* entries.length > 100
SEMANTIC_CACHE_MAX == 100

\* sortedEntries.slice(0, 80)
SEMANTIC_CACHE_KEEP == 80

\* maxAge = 3600000
DEFAULT_MAX_AGE == 3600000

\* getSemanticCache returns null
NullData == "null"

CacheTypes == {"entityGap", "references", "neuron"}

DEFAULT_SEMANTIC_CACHE == [type \in CacheTypes |-> <<>>]

\* s.replace(/\s+/g, '-')
RECURSIVE replaceWhitespaceRuns(_)
replaceWhitespaceRuns(s) ==
    IF Len(s) = 0 THEN s
    ELSE IF charAt(s, 1) \in Whitespace
    THEN "-" \o replaceWhitespaceRuns(trimStart(s))
    ELSE charAt(s, 1) \o replaceWhitespaceRuns(SubSeq(s, 2, Len(s)))

\* key.toLowerCase().trim().replace(/\s+/g, '-')
normalizedKey(key) == replaceWhitespaceRuns(trim(toLowerCase(key)))

\* cache[normalizedKey] = { data, timestamp }: an existing property keeps its
\* place in the property order, a new one comes last (no key of the model
\* is an array index)
assigned(entries, key, data, t) ==
    IF \E i \in 1..Len(entries) : entries[i].key = key
    THEN [i \in 1..Len(entries) |->
            IF entries[i].key = key
            THEN [key |-> key, data |-> data, timestamp |-> t]
            ELSE entries[i]]
    ELSE Append(entries, [key |-> key, data |-> data, timestamp |-> t])

\* entries.sort((a, b) => b[1].timestamp - a[1].timestamp): the sort is
\* stable, entries of one timestamp keep their order
RECURSIVE sortedByTimestamp(_, _)
sortedByTimestamp(entries, times) ==
    IF times = {} THEN <<>>
    ELSE LET latest == CHOOSE t \in times : \A u \in times : u <= t
             isLatest(e) == e.timestamp = latest
         IN  SelectSeq(entries, isLatest)
             \o sortedByTimestamp(entries, times \ {latest})

sortedEntries(entries) ==
    sortedByTimestamp(entries, {entries[i].timestamp : i \in 1..Len(entries)})

\* lines 648-655
cleanedUp(entries) ==
    IF Len(entries) > SEMANTIC_CACHE_MAX
    THEN SubSeq(sortedEntries(entries), 1, SEMANTIC_CACHE_KEEP)
    ELSE entries

\* the entries of a type after lines 642-655 of setSemanticCache at t
setEntries(entries, normalized, data, t) ==
    cleanedUp(assigned(entries, normalized, data, t))

\* lines 668-677 of getSemanticCache at t, on the entries of the type
getEntry(entries, normalized, maxAge, t) ==
    IF ~\E i \in 1..Len(entries) : entries[i].key = normalized
    THEN NullData
    ELSE LET entry == entries[CHOOSE i \in 1..Len(entries) :
                                 entries[i].key = normalized]
         IN  IF t - entry.timestamp > maxAge THEN NullData ELSE entry.data

\* the keys callers pass: topics, written in several ways
TopicKey(n) == "Topic " \o ToString(n)

CacheKeys == {TopicKey(1), "topic  100", " New Topic ", "new-topic"}

CacheWriteTypes == {"neuron", "references"}

\* the entries of a type after setSemanticCache was called for topics 1..n
\* (n <= 100, so that nothing was removed): all within one millisecond
\* (gap 0), or one millisecond apart (gap 1), the last of them at t
topicsWritten(n, gap, t) ==
    [i \in 1..n |-> [key |-> normalizedKey(TopicKey(i)), data |-> "old",
                     timestamp |-> t - gap * (n - i)]]

NoCacheCall == [op |-> "none", type |-> "", key |-> "", data |-> NullData]

CacheInit ==
    /\ semanticCache = DEFAULT_SEMANTIC_CACHE
    /\ cacheCall = NoCacheCall
    /\ cacheWrites = 0

lockVars == <<processingLock, now, lockReturn, releaseCall>>
dedupeVars == <<inflightRequests, promises, dedupeReturn>>
queueVars == <<queue, requests, processing, lastRequestTime, requestCount,
               windowStart, loopAt, wakeAt, started, clears>>
pollVars == <<pollResponses, pollState, pollError>>
cacheVars == <<semanticCache, cacheCall, cacheWrites>>
storeVars == <<lockVars, dedupeVars, queueVars, pollVars, cacheVars>>

\* the store before any of its functions has been called
StoreInit == LockInit /\ DedupeInit /\ QueueInit /\ PollInit /\ CacheInit

runVars == <<doc, nextId, headings, sortedTerms, headerIdx, headerInjected,
             termsToInject, termIdx, insertionCount, insertionCounts,
             termsAdded, termsFailed, insertionDetails, result,
             bodyInsertions, lastBlock>>

engineVars == <<pc, html, neuronTerms, options, analysis, runVars>>

vars == <<engineVars, storeVars>>

NoResult ==
    [html |-> <<>>, termsAdded |-> <<>>, termsFailed |-> <<>>,
     initialCoverage |-> 0, finalCoverage |-> 0, insertionDetails |-> <<>>]

\* the locals of a run before injectMissingNLPTerms has set them
RunNotStarted ==
    /\ doc = <<>> /\ nextId = 1
    /\ headings = <<>> /\ sortedTerms = <<>> /\ headerIdx = 1
    /\ headerInjected = <<>>
    /\ termsToInject = <<>> /\ termIdx = 1
    /\ insertionCount = 0 /\ insertionCounts = <<>>
    /\ termsAdded = <<>> /\ termsFailed = <<>> /\ insertionDetails = <<>>
    /\ result = NoResult
    /\ bodyInsertions = <<>> /\ lastBlock = 0

DefaultOptions ==
    [targetCoverage |-> DEFAULT_TARGET_COVERAGE, maxInsertions |-> DEFAULT_MAX_INSERTIONS,
     injectHeaders |-> TRUE, prioritizeCritical |-> TRUE]

(***************************************************************************)
(* Specification of the analyzer: one call of analyzeNLPCoverage           *)
(***************************************************************************)
InitAnalyze ==
    /\ pc = "AnalyzeCalled"
    /\ \E in \in AnalyzeInputs : html = in[1] /\ neuronTerms = in[2]
    /\ options = DefaultOptions
    /\ analysis = EmptyAnalysis
    /\ RunNotStarted
    /\ StoreInit

AnalyzeReturn ==
    /\ pc = "AnalyzeCalled"
    /\ analysisReturns(html, neuronTerms)
    /\ pc' = "AnalyzeReturned"
    /\ analysis' = analyzeNLPCoverage(html, neuronTerms)
    /\ UNCHANGED <<html, neuronTerms, options, runVars>>
    /\ UNCHANGED storeVars

NextAnalyze == AnalyzeReturn

SpecAnalyze == InitAnalyze /\ [][NextAnalyze]_vars

(***************************************************************************)
(* injectMissingNLPTerms                                                   *)
(***************************************************************************)
isCritical(t) == importanceOr50(t) >= CRITICAL_IMPORTANCE

\* the comparator of termsToInject.sort
priorityCompare(a, b) ==
    IF isCritical(a) /\ ~isCritical(b) THEN -1
    ELSE IF isCritical(b) /\ ~isCritical(a) THEN 1
    ELSE importanceOr50(b) - importanceOr50(a)

\* termsToInject.sort(comparator), a stable sort
RECURSIVE sortByPriority(_)
sortByPriority(ts) ==
    IF ts = <<>> THEN <<>>
    ELSE LET first == SetMin({i \in 1..Len(ts) :
                         \A j \in 1..Len(ts) : ~(priorityCompare(ts[j], ts[i]) < 0)})
         IN  <<ts[first]>> \o
             sortByPriority(SubSeq(ts, 1, first - 1) \o SubSeq(ts, first + 1, Len(ts)))

\* variant: a score equal to the target does not end the run
alreadyAtTarget_Above(score, targetCoverage) == score > targetCoverage

\* initialAnalysis.score >= targetCoverage
alreadyAtTarget(score, targetCoverage) == score >= targetCoverage

\* variant: the loop goes on while the count equals maxInsertions
budgetSpent_Above(count, maxInsertions) == count > maxInsertions

\* insertionCount >= maxInsertions
budgetSpent(count, maxInsertions) == count >= maxInsertions

\* variant: the score is taken from the html the run was called with
targetReached_InputHtml(d, terms, targetCoverage) ==
    analyzeNLPCoverage(html, terms).score >= targetCoverage

\* currentAnalysis.score >= targetCoverage, on the live document
targetReached(d, terms, targetCoverage) ==
    analyzeNLPCoverage(plainMarkup(d), terms).score >= targetCoverage

headingDetail(term) ==
    [term |-> term, location |-> "heading", template |-> "header injection",
     contextScore |-> 100]

bodyDetail(term, point, template) ==
    [term |-> term.term,
     location |-> IF point.elementType = "li" THEN "list" ELSE "paragraph",
     template |-> template,
     contextScore |-> point.insertionScore]

EarlyResult(coverage) ==
    [html |-> html, termsAdded |-> <<>>, termsFailed |-> <<>>,
     initialCoverage |-> coverage, finalCoverage |-> coverage,
     insertionDetails |-> <<>>]

\* the h2/h3 Elements of a document, in document order
headingElements(d) ==
    [j \in 1..Len(querySelectorAll(d, {"H2", "H3"})) |->
        d[querySelectorAll(d, {"H2", "H3"})[j]].id]

\* the state a run that does not exit early reaches before the header loop
\* (lines 510-532 and the first lines of injectHeaderTerms)
prepared(initialAnalysis) ==
    LET parsed == parseFromString(html, 1)
        sorted == IF options.prioritizeCritical
                  THEN sortByPriority(initialAnalysis.missingTerms)
                  ELSE initialAnalysis.missingTerms
        headerTerms == SelectSeq(sorted, LAMBDA t : t.type \in {"header", "title"})
    IN  [doc |-> parsed,
         nextId |-> 1 + countOpen(parsed),
         termsToInject |-> sorted,
         headings |-> IF options.injectHeaders THEN headingElements(parsed) ELSE <<>>,
         sortedTerms |-> IF options.injectHeaders
                         THEN sortByImportanceDesc(headerTerms) ELSE <<>>]

\* lines 478-527 and the call of injectHeaderTerms up to its loop.  (A value
\* is named by \E x \in {value}.)
Start ==
    /\ pc = "Initialized"
    /\ IF html = <<>> \/ Len(neuronTerms) = 0
       THEN /\ pc' = "EarlyExit"
            /\ result' = EarlyResult(100)
            /\ UNCHANGED <<analysis, doc, nextId, headings, sortedTerms,
                           termsToInject>>
       ELSE /\ analysisReturns(html, neuronTerms)
            /\ \E initialAnalysis \in {analyzeNLPCoverage(html, neuronTerms)} :
                /\ analysis' = initialAnalysis
                /\ IF alreadyAtTarget(initialAnalysis.score, options.targetCoverage)
                   THEN /\ pc' = "EarlyExit"
                        /\ result' = EarlyResult(initialAnalysis.score)
                        /\ UNCHANGED <<doc, nextId, headings, sortedTerms,
                                       termsToInject>>
                   ELSE \E st \in {prepared(initialAnalysis)} :
                        /\ pc' = "HeaderPass"
                        /\ doc' = st.doc
                        /\ nextId' = st.nextId
                        /\ termsToInject' = st.termsToInject
                        /\ headings' = st.headings
                        /\ sortedTerms' = st.sortedTerms
                        /\ UNCHANGED result
    /\ UNCHANGED <<html, neuronTerms, options, headerIdx, headerInjected, termIdx,
                   insertionCount, insertionCounts, termsAdded, termsFailed,
                   insertionDetails, bodyInsertions, lastBlock>>
    /\ UNCHANGED storeVars

\* variant: the loop also ends when the live coverage has reached the target
headerLoopDone_AtTarget ==
    \/ Len(headings) = 0 \/ Len(sortedTerms) = 0
    \/ headerIdx > Len(sortedTerms)
    \/ Len(headerInjected) >= headerBudget(options.maxInsertions)
    \/ targetReached(doc, neuronTerms, options.targetCoverage)

\* the loop of injectHeaderTerms is over
headerLoopDone ==
    \/ Len(headings) = 0 \/ Len(sortedTerms) = 0
    \/ headerIdx > Len(sortedTerms)
    \/ Len(headerInjected) >= headerBudget(options.maxInsertions)

\* the headings the inner loop does not pass over, in document order
acceptedHeadings(d, hs, term) ==
    SelectSeq(hs, LAMBDA id : ~skipsHeading(d, indexOfElement(d, id), term))

\* heading.innerHTML = ... of the first accepted heading
rewriteHeading(d, id, term, coin, firstId) ==
    LET h == indexOfElement(d, id)
    IN  setInnerHTML(d, h,
            <<Text(injectedHeadingText(textContent(d, h), term.term, coin))>>, firstId)

\* one iteration of  for (const term of sortedTerms)  in injectHeaderTerms
HeaderTerm ==
    /\ pc = "HeaderPass"
    /\ ~headerLoopDone
    /\ \E term \in {sortedTerms[headerIdx]} :
       \E accepted \in {acceptedHeadings(doc, headings, term)} :
           IF accepted = <<>>
           THEN UNCHANGED <<doc, nextId, headerInjected>>
           ELSE \E coin \in BOOLEAN :
                  /\ doc' = rewriteHeading(doc, accepted[1], term, coin, nextId)
                  /\ nextId' = nextId
                  /\ headerInjected' = Append(headerInjected, term.term)
    /\ headerIdx' = headerIdx + 1
    /\ UNCHANGED <<pc, html, neuronTerms, options, analysis, headings, sortedTerms,
                   termsToInject, termIdx, insertionCount, insertionCounts,
                   termsAdded, termsFailed, insertionDetails, result,
                   bodyInsertions, lastBlock>>
    /\ UNCHANGED storeVars

\* lines 534-549: the header successes are recorded and leave the work list
\* variant: the work list keeps the terms the header pass injected
withoutInjected_KeepsAll(ts, injected) == ts

\* termsToInject.filter(t => !headerInjected.includes(t.term))
withoutInjected(ts, injected) ==
    SelectSeq(ts, LAMBDA t : t.term \notin SeqToSet(injected))

HeaderDone ==
    /\ pc = "HeaderPass"
    /\ headerLoopDone
    /\ pc' = "BodyPass"
    /\ termsAdded' = termsAdded \o headerInjected
    /\ insertionDetails' = insertionDetails \o
           [j \in 1..Len(headerInjected) |-> headingDetail(headerInjected[j])]
    /\ termsToInject' = withoutInjected(termsToInject, headerInjected)
    /\ insertionCount' = Len(termsAdded')
    /\ UNCHANGED <<html, neuronTerms, options, analysis, doc, nextId, headings,
                   sortedTerms, headerIdx, headerInjected, termIdx,
                   insertionCounts, termsFailed, result, bodyInsertions, lastBlock>>
    /\ UNCHANGED storeVars

\* the body loop leaves: the list is done or one of its two breaks is taken
bodyLoopDone ==
    \/ termIdx > Len(termsToInject)
    \/ budgetSpent(insertionCount, options.maxInsertions)
    \/ targetReached(doc, neuronTerms, options.targetCoverage)

\* variant: a term without insertion point is not recorded
failedWith_NotRecorded(failed, term) == failed

\* termsFailed.push(term.term)
failedWith(failed, term) == Append(failed, term.term)

\* one iteration of  for (const term of termsToInject)
BodyTerm ==
    /\ pc = "BodyPass"
    /\ analysisReturns(plainMarkup(doc), neuronTerms)
    /\ ~bodyLoopDone
    /\ \E term \in {termsToInject[termIdx]} :
       \E insertionPoints \in {findSemanticInsertionPoints(doc, term, insertionCounts)} :
           IF Len(insertionPoints) = 0
           THEN /\ termsFailed' = failedWith(termsFailed, term)
                /\ UNCHANGED <<doc, nextId, insertionCount, insertionCounts,
                               termsAdded, insertionDetails, bodyInsertions, lastBlock>>
           ELSE \E bestPoint \in {insertionPoints[1]} :
                \E category \in templateCategoriesFor(term, bestPoint) :
                \E n \in 1..Len(INSERTION_TEMPLATES[category]) :
                \E r \in {insertTermNaturally(doc, term, bestPoint,
                              INSERTION_TEMPLATES[category][n], nextId)} :
                    IF r.success
                    THEN /\ doc' = r.doc
                         /\ nextId' = r.nextId
                         /\ termsAdded' = Append(termsAdded, term.term)
                         /\ insertionCount' = insertionCount + 1
                         /\ insertionCounts' =
                                (bestPoint.element :>
                                   insertionsOf(insertionCounts, bestPoint.element) + 1)
                                @@ insertionCounts
                         /\ insertionDetails' =
                                Append(insertionDetails, bodyDetail(term, bestPoint, r.template))
                         /\ \E org \in {doc[indexOfElement(doc, bestPoint.element)].org} :
                              bodyInsertions' =
                                (org :> insertionsOf(bodyInsertions, org) + 1) @@ bodyInsertions
                         /\ lastBlock' = bestPoint.element
                         /\ UNCHANGED termsFailed
                    ELSE /\ termsFailed' = failedWith(termsFailed, term)
                         /\ UNCHANGED <<doc, nextId, insertionCount, insertionCounts,
                                        termsAdded, insertionDetails, bodyInsertions,
                                        lastBlock>>
    /\ termIdx' = termIdx + 1
    /\ UNCHANGED <<pc, html, neuronTerms, options, analysis, headings, sortedTerms,
                   headerIdx, headerInjected, termsToInject, result>>
    /\ UNCHANGED storeVars

\* finalHtml = doc.body?.innerHTML || html
finalHtmlOf(d) == IF plainMarkup(d) # <<>> THEN plainMarkup(d) ELSE html

\* lines 590-601
Finalize ==
    /\ pc = "BodyPass"
    /\ analysisReturns(finalHtmlOf(doc), neuronTerms)
    /\ bodyLoopDone
    /\ pc' = "Finalized"
    /\ \E finalHtml \in {finalHtmlOf(doc)} :
       \E finalAnalysis \in {analyzeNLPCoverage(finalHtml, neuronTerms)} :
           result' = [html |-> finalHtml,
                      termsAdded |-> termsAdded,
                      termsFailed |-> termsFailed,
                      initialCoverage |-> analysis.score,
                      finalCoverage |-> finalAnalysis.score,
                      insertionDetails |-> insertionDetails]
    /\ UNCHANGED <<html, neuronTerms, options, analysis, doc, nextId, headings,
                   sortedTerms, headerIdx, headerInjected, termsToInject, termIdx,
                   insertionCount, insertionCounts, termsAdded, termsFailed,
                   insertionDetails, bodyInsertions, lastBlock>>
    /\ UNCHANGED storeVars

(***************************************************************************)
(* Inputs of the runs                                                      *)
(***************************************************************************)
ParagraphStrategy ==
    "Good content writing needs an effective strategy. Every article should serve the reader well."

ParagraphProcess ==
    "A simple process gives the best result. Every reader should find the answer without effort."

\* a heading and two paragraphs
DocGuide ==
    Elem("H2", <<Text("Writing Guide")>>)
    \o Elem("P", <<Text(ParagraphStrategy)>>)
    \o Elem("P", <<Text(ParagraphProcess)>>)

\* a paragraph nested in a list item that has text of its own
DocNested ==
    Elem("UL", Elem("LI", <<Text("Examples, tests and demos follow. ")>>
                          \o Elem("P", <<Text(ParagraphProcess)>>)))

\* a paragraph of three sentences, the first two of them inside a link
DocLink ==
    Elem("P", Elem("A", <<Text("Read our effective strategy guide here. It covers every important method")>>)
              \o <<Text(" for careful writers. The final sentence closes the paragraph well.")>>)

\* a paragraph inside a quotation
DocQuote == Elem("BLOCKQUOTE", Elem("P", <<Text(ParagraphStrategy)>>))

\* a paragraph too short to take an insertion
DocShort == Elem("H2", <<Text("Guide")>>) \o Elem("P", <<Text("Content matters.")>>)

\* the terms the lists of a run are cut from
PoolTerms ==
    << Term("optimization", "extended", 70),
       Term("SEO", "basic", 90),
       Term("writing tips", "header", 95),
       Term("content", "basic", 50),
       TermNoImportance("guide book", "title") >>

\* the empty list and the runs of at most MaxListLen successive pool terms
PoolLists ==
    {<<>>} \cup { SubSeq(PoolTerms, w[1], w[2]) :
                    w \in { v \in (1..Len(PoolTerms)) \X (1..Len(PoolTerms)) :
                              v[1] <= v[2] /\ v[2] - v[1] < MaxListLen } }

NestedTerms ==
    << Term("example", "basic", 90), Term("test", "basic", 80),
       Term("seo", "basic", 70), Term("demo", "basic", 60) >>

\* a term both paragraphs of the guide hold inside a longer word ("reader"),
\* and a term they do not hold
SubstringTerms == << Term("read", "basic", 90), Term("SEO", "basic", 70) >>

\* two headings of 42 and 40 characters and a paragraph too short to take
\* an insertion
DocHeadings ==
    Elem("H2", <<Text("Planning the first draft of a long article")>>)
    \o Elem("H3", <<Text("Questions that every careful editor asks")>>)
    \o Elem("P", <<Text("Content matters.")>>)

\* a heading of 75 characters and a short paragraph
DocLongHeading ==
    Elem("H2", <<Text("A complete and careful checklist for planning the first draft of an article")>>)
    \o Elem("P", <<Text("Content matters.")>>)

\* six heading terms that share no word with the headings
HeadingTerms ==
    << Term("keyword research", "title", 99), Term("meta tags", "header", 98),
       Term("link building", "header", 97), Term("site speed", "title", 96),
       Term("alt text", "header", 95), Term("page rank", "title", 94) >>

\* heading terms that share no word with the headings: one without
\* importance, one of low importance
UnrelatedTerms ==
    << Term("meta tags", "header", 60), TermNoImportance("keyword research", "header") >>

\* a title term of importance 90 after a header term of low importance
TitleTerms ==
    << Term("meta tags", "header", 60), Term("keyword research", "title", 90) >>

\* two heading terms of the same importance
TiedTerms ==
    << Term("meta tags", "header", 95), Term("keyword research", "title", 95) >>

\* terms of importance 0 and 30 among more important ones
LowTerms ==
    << Term("alpha", "basic", 0), Term("beta", "basic", 30),
       Term("gamma", "basic", 85), Term("delta", "basic", 80) >>

\* a paragraph of one sentence without any related term, a paragraph of
\* one sentence with two related terms, a paragraph of two exclamations
\* with three related terms, and a paragraph of more than 600 characters
ParagraphPlain ==
    "The weather was mild on that long morning and the birds sang over the quiet garden wall."

ParagraphOneSentence ==
    "An effective strategy for the whole team is written down on a single page of the plan."

ParagraphExclaims ==
    "What an effective method! It is a simple approach that every single team can follow today!"

ParagraphLong ==
    ParagraphStrategy \o " " \o ParagraphProcess \o " " \o ParagraphStrategy \o " "
    \o ParagraphProcess \o " " \o ParagraphStrategy \o " " \o ParagraphProcess \o " "
    \o ParagraphOneSentence

DocBlocks ==
    Elem("P", <<Text(ParagraphPlain)>>)
    \o Elem("P", <<Text(ParagraphOneSentence)>>)
    \o Elem("P", <<Text(ParagraphExclaims)>>)
    \o Elem("P", <<Text(ParagraphLong)>>)

\* a term that belongs to no cluster, and a term of two words the
\* paragraphs hold
BlockTerms == << Term("alpha", "basic", 50), Term("team page", "basic", 40) >>

\* a paragraph of three sentences with one related term, white space of
\* more than one character between and after its sentences and an inline
\* element across a sentence break, and a paragraph of one sentence with
\* one related term
DocSentences ==
    Elem("P", <<Text("The gardens were open early in the morning.  Many visitors walked along the shaded ")>>
              \o Elem("EM", <<Text("paths. An")>>)
              \o <<Text(" effective guide explained the history of the house.\n")>>)
    \o Elem("P", <<Text("Every visitor received a printed map of the estate with a clear strategy for the walk.")>>)

\* a term of no cluster, and a term the first paragraph holds inside a
\* longer word only
SentenceTerms == << Term("alpha", "basic", 50), Term("garden", "basic", 40) >>

\* a paragraph of three sentences whose second sentence holds an
\* abbreviation with a full stop
DocAbbreviation ==
    Elem("P", <<Text("The riverfront walks are busy every spring. Many travellers book St. Louis hotels for a long weekend. The city offers an effective mix of music and food.")>>)

\* two terms that hold the abbreviation, and a term of no cluster
AbbreviationTerms ==
    << Term("st. louis", "basic", 60), Term("st. louis hotels", "basic", 60),
       Term("alpha", "basic", 50) >>

\* a term list that holds a term of no characters
EmptyTermList == << Term("content", "basic", 50), Term("", "basic", 50) >>

\* options other than the defaults: every small budget against both
\* targets, and each of the two switches turned off
OptionVariants ==
    { [DefaultOptions EXCEPT !.targetCoverage = t, !.maxInsertions = m] :
        t \in {50, DEFAULT_TARGET_COVERAGE}, m \in 0..MaxInsertionsOption }
    \cup { [DefaultOptions EXCEPT !.injectHeaders = FALSE],
           [DefaultOptions EXCEPT !.prioritizeCritical = FALSE] }

RunInput(m, terms, opts) == [html |-> m, terms |-> terms, options |-> opts]

\* the guide with every list and every option; the other documents with the
\* default options, the lists of one term and the list written for them
RunInputs ==
    { RunInput(DocGuide, l, o) : l \in PoolLists, o \in {DefaultOptions} \cup OptionVariants }
    \cup { RunInput(d, l, DefaultOptions) :
             d \in {<<>>, DocLink, DocQuote, DocShort},
             l \in {<<>>} \cup {<<PoolTerms[i]>> : i \in 1..Len(PoolTerms)} }
    \cup { RunInput(DocNested, NestedTerms, DefaultOptions),
           RunInput(DocGuide, SubstringTerms, DefaultOptions),
           RunInput(DocHeadings, HeadingTerms, DefaultOptions),
           RunInput(DocHeadings, HeadingTerms, [DefaultOptions EXCEPT !.targetCoverage = 50]),
           RunInput(DocHeadings, UnrelatedTerms, DefaultOptions),
           RunInput(DocHeadings, TitleTerms, DefaultOptions),
           RunInput(DocLongHeading, TiedTerms, DefaultOptions),
           RunInput(DocHeadings, LowTerms, DefaultOptions),
           RunInput(DocShort, EmptyTermList, DefaultOptions),
           RunInput(DocBlocks, BlockTerms, DefaultOptions),
           RunInput(DocAbbreviation, AbbreviationTerms, DefaultOptions),
           RunInput(DocSentences, SentenceTerms, DefaultOptions),
           RunInput(DocHeadings, LowTerms, [DefaultOptions EXCEPT !.prioritizeCritical = FALSE]) }

(***************************************************************************)
(* Specification of a run of injectMissingNLPTerms                         *)
(***************************************************************************)
Init ==
    /\ pc = "Initialized"
    /\ \E in \in RunInputs :
         html = in.html /\ neuronTerms = in.terms /\ options = in.options
    /\ analysis = EmptyAnalysis
    /\ RunNotStarted
    /\ StoreInit

Next == Start \/ HeaderTerm \/ HeaderDone \/ BodyTerm \/ Finalize

Spec == Init /\ [][Next]_vars

(***************************************************************************)
(* Specification of the processing lock                                    *)
(***************************************************************************)
\* the engine is not running while the store is exercised
EngineIdle ==
    /\ pc = "Store"
    /\ html = <<>> /\ neuronTerms = <<>> /\ options = DefaultOptions
    /\ analysis = EmptyAnalysis
    /\ RunNotStarted

InitLock == EngineIdle /\ StoreInit

\* acquireLock(lockedBy), lines 604-621
AcquireLock ==
    /\ pc = "Store"
    /\ \E lockedBy \in LockCallers :
          IF lockRefused(processingLock, now)
          THEN /\ lockReturn' = [caller |-> lockedBy, value |-> FALSE, at |-> now]
               /\ UNCHANGED processingLock
          ELSE /\ processingLock' = acquiredLock(now, lockedBy)
               /\ lockReturn' = [caller |-> lockedBy, value |-> TRUE, at |-> now]
    /\ UNCHANGED <<now, releaseCall, engineVars, dedupeVars, queueVars, pollVars, cacheVars>>

\* releaseLock(lockedBy), lines 623-627
ReleaseLock ==
    /\ pc = "Store"
    /\ \E lockedBy \in LockCallers :
          /\ processingLock' = releasedLock(processingLock, lockedBy)
          /\ releaseCall' = [caller |-> lockedBy, at |-> now,
                              flip |-> ~releaseCall.flip]
    /\ UNCHANGED <<now, lockReturn, engineVars, dedupeVars, queueVars, pollVars, cacheVars>>

\* resetStore, line 823
ResetStore ==
    /\ pc = "Store"
    /\ processingLock' = DEFAULT_PROCESSING_LOCK
    /\ UNCHANGED <<now, lockReturn, releaseCall, engineVars, dedupeVars, queueVars, pollVars, cacheVars>>

\* time passes between two calls
Tick ==
    /\ pc = "Store"
    /\ \E t \in Instants : t > now /\ now' = t
    /\ UNCHANGED <<processingLock, lockReturn, releaseCall, engineVars, dedupeVars, queueVars, pollVars, cacheVars>>

NextLock == AcquireLock \/ ReleaseLock \/ ResetStore \/ Tick

SpecLock == InitLock /\ [][NextLock]_vars

(***************************************************************************)
(* Specification of the request deduplication                              *)
(***************************************************************************)
InitDedupe == EngineIdle /\ StoreInit

\* dedupeRequest(key, requestFn), lines 993-1013.  The promise of a request
\* and the promise .finally() derives from it are one entry of promises.
DedupeRequest ==
    /\ pc = "Store"
    /\ dedupeReturn.call < MaxDedupeCalls
    /\ \E key \in RequestKeys :
       \E existing \in {mapGet(inflightRequests, key)} :
          IF existing # 0
          THEN /\ dedupeReturn' = [call |-> dedupeReturn.call + 1, key |-> key,
                                   promise |-> existing, invoked |-> FALSE]
               /\ UNCHANGED <<promises, inflightRequests>>
          ELSE /\ promises' = Append(promises, [key |-> key, state |-> "pending"])
               /\ inflightRequests' = mapSet(inflightRequests, key, Len(promises) + 1)
               /\ dedupeReturn' = [call |-> dedupeReturn.call + 1, key |-> key,
                                   promise |-> Len(promises) + 1, invoked |-> TRUE]
    /\ UNCHANGED <<engineVars, lockVars, queueVars, pollVars, cacheVars>>

\* a request settles and the callback of .finally() runs, lines 1006-1009
SettleRequest ==
    /\ pc = "Store"
    /\ \E id \in 1..Len(promises) :
       \E outcome \in {"fulfilled", "rejected"} :
          /\ promises[id].state = "pending"
          /\ promises' = [promises EXCEPT ![id].state = outcome]
          /\ inflightRequests' = mapDelete(inflightRequests, promises[id].key)
    /\ UNCHANGED <<dedupeReturn, engineVars, lockVars, queueVars, pollVars, cacheVars>>

NextDedupe == DedupeRequest \/ SettleRequest

SpecDedupe == InitDedupe /\ [][NextDedupe]_vars

(***************************************************************************)
(* Specification of RateLimitedQueue                                       *)
(***************************************************************************)
InitQueue == EngineIdle /\ StoreInit

lockFields == <<processingLock, lockReturn, releaseCall>>

\* enqueue(execute, priority), lines 1062-1086, with the part of
\* processQueue that runs before its first await
Enqueue ==
    /\ pc = "Store"
    /\ Len(requests) < MaxEnqueues
    /\ \E priority \in Priorities :
       \E reqs \in {Append(requests, QueuedRequest(priority))} :
       \E S \in {[QueueState EXCEPT
                    !.requests = reqs,
                    !.queue = insertByPriority(queue, reqs, Len(reqs))]} :
          queueBecomes(processQueue(S, now))
    /\ UNCHANGED <<now, clears, lockFields, engineVars, dedupeVars, pollVars, cacheVars>>

\* the timer processQueue awaits fires, at its due instant or later: after
\* the rate-limit wait the loop goes back to its test (continue), after the
\* minimum delay it goes on to shift()
TimerFires ==
    /\ pc = "Store"
    /\ loopAt \in {"rateWait", "delayWait"}
    /\ \E t \in {IF now >= wakeAt THEN now ELSE wakeAt} :
          /\ now' = t
          /\ IF loopAt = "rateWait"
             THEN queueBecomes(loopHead(QueueState, t))
             ELSE queueBecomes(shiftAndStart(QueueState, t))
    /\ UNCHANGED <<clears, lockFields, engineVars, dedupeVars, pollVars, cacheVars>>

\* the promise of execute() settles: lines 1117-1122, then the loop test
ExecuteSettles ==
    /\ pc = "Store"
    /\ loopAt = "executing"
    /\ \E outcome \in {"resolved", "rejected"} :
       \E S \in {[QueueState EXCEPT
                    !.requests[started[Len(started)].id].state = outcome]} :
          queueBecomes(loopHead(S, now))
    /\ UNCHANGED <<now, clears, lockFields, engineVars, dedupeVars, pollVars, cacheVars>>

\* variant: clear rejects the waiting requests and leaves them queued
Clear_KeepsQueue ==
    /\ pc = "Store"
    /\ clears < MaxClears
    /\ clears' = clears + 1
    /\ requests' = [i \in 1..Len(requests) |->
                      IF \E k \in 1..Len(queue) : queue[k] = i
                      THEN [requests[i] EXCEPT !.state = "cleared"]
                      ELSE requests[i]]
    /\ UNCHANGED <<now, queue, processing, lastRequestTime, requestCount, windowStart,
                   loopAt, wakeAt, started, lockFields, engineVars, dedupeVars, pollVars, cacheVars>>

\* clear(), lines 1133-1136
Clear ==
    /\ pc = "Store"
    /\ clears < MaxClears
    /\ clears' = clears + 1
    /\ requests' = [i \in 1..Len(requests) |->
                      IF \E k \in 1..Len(queue) : queue[k] = i
                      THEN [requests[i] EXCEPT !.state = "cleared"]
                      ELSE requests[i]]
    /\ queue' = <<>>
    /\ UNCHANGED <<now, processing, lastRequestTime, requestCount, windowStart,
                   loopAt, wakeAt, started, lockFields, engineVars, dedupeVars, pollVars, cacheVars>>

\* time passes between two events
QueueTick ==
    /\ pc = "Store"
    /\ \E t \in QueueInstants : t > now /\ now' = t
    /\ UNCHANGED <<queueVars, lockFields, engineVars, dedupeVars, pollVars, cacheVars>>

NextQueue == Enqueue \/ TimerFires \/ ExecuteSettles \/ Clear \/ QueueTick

SpecQueue == InitQueue /\ [][NextQueue]_vars

\* every timer fires and every execute function settles
SpecQueueFair ==
    InitQueue /\ [][NextQueue]_vars /\ WF_vars(TimerFires) /\ WF_vars(ExecuteSettles)

(***************************************************************************)
(* Specification of pollNeuronQuery                                        *)
(***************************************************************************)
InitPoll == EngineIdle /\ StoreInit

\* one iteration of the loop of lines 189-223: the delay, the poll and
\* what follows it up to the next await
Poll ==
    /\ pc = "Store"
    /\ pollState = "polling"
    /\ Len(pollResponses) < maxAttempts
    /\ \E outcome \in PollOutcomes :
       \E after \in {afterPoll(outcome, Len(pollResponses) + 1)} :
          /\ pollResponses' = Append(pollResponses, outcome)
          /\ pollState' = after.state
          /\ pollError' = after.error
    /\ UNCHANGED <<engineVars, lockVars, dedupeVars, queueVars, cacheVars>>

NextPoll == Poll

SpecPoll == InitPoll /\ [][NextPoll]_vars

(***************************************************************************)
(* Specification of the semantic cache                                     *)
(***************************************************************************)
\* the cache is empty, or the type neuron holds the entries of 99 or 100
\* earlier writes
InitCache ==
    /\ EngineIdle /\ LockInit /\ DedupeInit /\ QueueInit /\ PollInit
    /\ semanticCache \in
         {DEFAULT_SEMANTIC_CACHE}
         \cup {[DEFAULT_SEMANTIC_CACHE EXCEPT !["neuron"] = topicsWritten(n, gap, FirstInstant)] :
                 n \in {SEMANTIC_CACHE_MAX - 1, SEMANTIC_CACHE_MAX}, gap \in {0, 1}}
    /\ cacheCall = NoCacheCall
    /\ cacheWrites = 0

\* setSemanticCache(type, key, data), lines 633-656
SetSemanticCache ==
    /\ pc = "Store"
    /\ cacheWrites < MaxCacheWrites
    /\ \E type \in CacheWriteTypes, key \in CacheKeys :
       \E data \in {"v" \o ToString(cacheWrites + 1)}, normalized \in {normalizedKey(key)} :
          /\ semanticCache' =
               [semanticCache EXCEPT ![type] = setEntries(@, normalized, data, now)]
          /\ cacheCall' = [op |-> "set", type |-> type, key |-> key, data |-> data]
    /\ cacheWrites' = cacheWrites + 1
    /\ UNCHANGED <<engineVars, lockVars, dedupeVars, queueVars, pollVars>>

\* getSemanticCache(type, key), lines 659-678
GetSemanticCache ==
    /\ pc = "Store"
    /\ \E type \in CacheWriteTypes, key \in CacheKeys :
       \E normalized \in {normalizedKey(key)} :
          cacheCall' = [op |-> "get", type |-> type, key |-> key,
                        data |-> getEntry(semanticCache[type], normalized, DEFAULT_MAX_AGE, now)]
    /\ UNCHANGED <<semanticCache, cacheWrites>>
    /\ UNCHANGED <<engineVars, lockVars, dedupeVars, queueVars, pollVars>>

\* time passes between two calls
CacheTick ==
    /\ pc = "Store"
    /\ \E t \in {FirstInstant + 1, FirstInstant + 2} : t > now /\ now' = t
    /\ UNCHANGED <<lockFields, engineVars, dedupeVars, queueVars, pollVars, cacheVars>>

NextCache == SetSemanticCache \/ GetSemanticCache \/ CacheTick

SpecCache == InitCache /\ [][NextCache]_vars

(***************************************************************************)
(* Properties of analyzeNLPCoverage                                        *)
(***************************************************************************)
Range(s) == {s[i] : i \in 1..Len(s)}
Occurrences(s, x) == Cardinality({i \in 1..Len(s) : s[i] = x})

usedRecords(a) == [j \in 1..Len(a.usedTerms) |-> termOf(a.usedTerms[j])]

Partitioned(a, terms) ==
    \A t \in Range(terms) \cup Range(usedRecords(a)) \cup Range(a.missingTerms) :
        /\ Occurrences(usedRecords(a), t) + Occurrences(a.missingTerms, t)
             = Occurrences(terms, t)
        /\ Occurrences(usedRecords(a), t) = 0 \/ Occurrences(a.missingTerms, t) = 0

\* round(100 * u / t), halves upwards
RoundedPercent(u, t) == (200 * u + t) \div (2 * t)

AnalyzeDone == pc = "AnalyzeReturned"

\* C7 as amended: when the content is not empty, usedTerms and missingTerms
\* partition the input term records: every input record is in exactly one of
\* the two lists, as often as it is in the input, and nothing else is.
C7_PartitionNonEmptyContent ==
    (AnalyzeDone /\ html # <<>>) => Partitioned(analysis, neuronTerms)

\* C7 as stated: the partition holds for every content and term list.
C7_PartitionEveryContent ==
    AnalyzeDone => Partitioned(analysis, neuronTerms)

C7_Witness ==
    /\ AnalyzeDone /\ html # <<>>
    /\ Len(analysis.usedTerms) > 0 /\ Len(analysis.missingTerms) > 0

\* C8: for non-empty content and a non-empty term list,
\* score = round(100 * |usedTerms| / |inputTerms|).
C8_RawScoreFormula ==
    (AnalyzeDone /\ html # <<>> /\ Len(neuronTerms) > 0) =>
        analysis.score = RoundedPercent(Len(analysis.usedTerms), Len(neuronTerms))

\* importance as the claim counts it: the term's own value when present
\* (0 included), 50 when absent
ownImportance(t) == IF "importance" \in DOMAIN t THEN t.importance ELSE 50

ownImportanceSum(ts) == SumSeq([i \in 1..Len(ts) |-> ownImportance(ts[i])])

\* C9: weightedScore = round(100 * sum of importance over used terms
\* / sum of importance over all terms), a present importance counted as
\* itself (0 included) and an absent one as 50.
C9_WeightedScoreFormula ==
    (AnalyzeDone /\ html # <<>> /\ Len(neuronTerms) > 0
       /\ ownImportanceSum(neuronTerms) > 0) =>
        analysis.weightedScore =
            RoundedPercent(ownImportanceSum(analysis.usedTerms),
                           ownImportanceSum(neuronTerms))

\* C10: with every importance in 0..100, score and weightedScore are
\* integers in 0..100.
C10_ScoreBounds ==
    AnalyzeDone => /\ analysis.score \in 0..100
                   /\ analysis.weightedScore \in 0..100

C10_Witness ==
    /\ AnalyzeDone
    /\ analysis.score \in 1..99
    /\ analysis.weightedScore \in 1..99
    /\ analysis.weightedScore # analysis.score

\* C12: with empty content or an empty term list both scores are 100 and
\* usedTerms, missingTerms, criticalMissing, headerMissing and bodyMissing
\* are empty.
C12_DegenerateAnalysis ==
    (AnalyzeDone /\ (html = <<>> \/ Len(neuronTerms) = 0)) =>
        /\ analysis.score = 100
        /\ analysis.weightedScore = 100
        /\ analysis.usedTerms = <<>>
        /\ analysis.missingTerms = <<>>
        /\ analysis.criticalMissing = <<>>
        /\ analysis.headerMissing = <<>>
        /\ analysis.bodyMissing = <<>>

\* empty content analyzed against a list that holds a critical header term
C12_Witness ==
    /\ AnalyzeDone
    /\ html = <<>>
    /\ \E i \in 1..Len(neuronTerms) :
          neuronTerms[i].type = "header" /\ importanceOr50(neuronTerms[i]) >= 80

\* the lowercased text analyzeNLPCoverage searches
analyzedText == toLowerCase(bodyTextContent(parseFromString(html, 1)))

\* pat occurs at position i of text with no word character next to it
wholeWordAt(text, pat, i) ==
    /\ i + Len(pat) - 1 <= Len(text)
    /\ SubSeq(text, i, i + Len(pat) - 1) = pat
    /\ (i = 1 \/ charAt(text, i - 1) \notin WordChars)
    /\ (i + Len(pat) > Len(text) \/ charAt(text, i + Len(pat)) \notin WordChars)

occursAsWholeWord(text, pat) == \E i \in 1..Len(text) : wholeWordAt(text, pat, i)

\* C11: a term is in usedTerms if and only if its text occurs in the text
\* of the content, case-insensitively, as a whole word (not as a part of a
\* longer word); otherwise it is in missingTerms.
C11_WordBoundaryMatching ==
    (AnalyzeDone /\ html # <<>> /\ Len(neuronTerms) > 0) =>
        \A i \in 1..Len(neuronTerms) :
            LET occurs == occursAsWholeWord(analyzedText, toLowerCase(neuronTerms[i].term))
            IN  /\ (neuronTerms[i] \in Range(usedRecords(analysis))) <=> occurs
                /\ (neuronTerms[i] \in Range(analysis.missingTerms)) <=> ~occurs

(***************************************************************************)
(* Properties of injectMissingNLPTerms                                     *)
(***************************************************************************)
RunOver == pc \in {"EarlyExit", "Finalized"}

\* C1: if analyzeNLPCoverage(content, terms).score >= targetCoverage, the
\* run returns the input html itself, with termsAdded, termsFailed and
\* insertionDetails empty and finalCoverage = initialCoverage.
C1_IdempotentEarlyExit ==
    (RunOver /\ analyzeNLPCoverage(html, neuronTerms).score >= options.targetCoverage) =>
        /\ result.html = html
        /\ result.termsAdded = <<>>
        /\ result.termsFailed = <<>>
        /\ result.insertionDetails = <<>>
        /\ result.finalCoverage = result.initialCoverage

\* a run that ends early although terms are missing
C1_Witness ==
    /\ pc = "EarlyExit"
    /\ html # <<>>
    /\ Len(analysis.missingTerms) > 0
    /\ analysis.score >= options.targetCoverage

\* a step of the body loop that gets as far as looking for insertion points
BodyAttempt == pc = "BodyPass" /\ termIdx' = termIdx + 1

\* C2: the successful insertions, header injections and body insertions
\* together, never exceed maxInsertions, and no body insertion is attempted
\* once their number has reached maxInsertions.
C2_InsertionBudget ==
    /\ [](Len(termsAdded) <= options.maxInsertions
          /\ Len(headerInjected) <= options.maxInsertions)
    /\ [][BodyAttempt => Len(termsAdded) < options.maxInsertions]_vars

\* a run the budget has stopped: header and body insertions add up to
\* maxInsertions, and terms are left that the body loop never tried
C2_Witness ==
    /\ pc = "Finalized"
    /\ options.maxInsertions > 0
    /\ Len(result.termsAdded) = options.maxInsertions
    /\ Len(headerInjected) > 0
    /\ Len(headerInjected) < Len(result.termsAdded)
    /\ termIdx <= Len(termsToInject)
    /\ result.finalCoverage < options.targetCoverage

\* C3: no block of the input document, top-level or nested in another
\* candidate block, receives more than 2 body insertions in one run.
C3_SaturationCap ==
    \A b \in DOMAIN bodyInsertions : bodyInsertions[b] <= MAX_INSERTIONS_PER_PARAGRAPH

\* a step of the body loop that inserts
BodyInsertion == pc = "BodyPass" /\ Len(termsAdded') = Len(termsAdded) + 1

\* C4: a successful body insertion changes the inner content of the
\* selected block only: the document up to and including the block's start
\* tag, and from its end tag on, is the same before and after.
C4_NonDestructiveBodyInsertion ==
    [][BodyInsertion =>
         LET i == indexOfElement(doc, lastBlock')
             tail == Len(doc) - matchClose(doc, i) + 1
         IN  /\ Len(doc') >= i + tail
             /\ SubSeq(doc', 1, i) = SubSeq(doc, 1, i)
             /\ SubSeq(doc', Len(doc') - tail + 1, Len(doc'))
                  = SubSeq(doc, Len(doc) - tail + 1, Len(doc))]_vars

\* a body insertion into a block that has nodes before and behind it
C4_Witness ==
    /\ pc = "BodyPass"
    /\ lastBlock # 0
    /\ Len(termsAdded) > Len(headerInjected)
    /\ indexOfElement(doc, lastBlock) > 1
    /\ matchClose(doc, indexOfElement(doc, lastBlock)) < Len(doc)

\* C5: the sentence a body insertion synthesizes (the one carrying the
\* <strong> element) never lies inside a link, heading, quotation, code,
\* pre, script or style element.
C5_ForbiddenZoneExclusion ==
    \A i \in 1..Len(doc) :
        (doc[i].k = "open" /\ doc[i].v = "STRONG") => ~isInsideSpecialElement(doc, i)

\* C6: with the default options, non-empty content and a non-empty term
\* list, the run returns finalCoverage >= 85.
C6_CoverageGuarantee ==
    (RunOver /\ options = DefaultOptions /\ html # <<>> /\ Len(neuronTerms) > 0) =>
        result.finalCoverage >= DEFAULT_TARGET_COVERAGE

\* raw coverage of the document as it stands
liveScore == analyzeNLPCoverage(plainMarkup(doc), neuronTerms).score

\* the terms of the work list the body loop has not come to
unprocessedTerms == {termsToInject[j].term : j \in termIdx..Len(termsToInject)}

\* the body loop has stopped with terms left and budget left
StoppedAtTarget ==
    /\ pc = "Finalized"
    /\ termIdx <= Len(termsToInject)
    /\ ~(insertionCount >= options.maxInsertions)

\* C13: no body insertion is attempted when the raw coverage of the
\* document as it stands is >= targetCoverage, and the terms left when the
\* loop stops for this reason are neither in termsAdded nor in termsFailed.
C13_GoalDirectedStop ==
    /\ [][BodyAttempt => liveScore < options.targetCoverage]_vars
    /\ [](StoppedAtTarget =>
            /\ liveScore >= options.targetCoverage
            /\ unprocessedTerms \cap (Range(result.termsAdded) \cup Range(result.termsFailed)) = {}
            /\ Len(result.termsAdded) - Len(headerInjected) + Len(result.termsFailed)
                 = termIdx - 1)

\* a run whose insertions raised the coverage to the target, with a term left
C13_Witness ==
    /\ StoppedAtTarget
    /\ Len(result.termsAdded) > 0
    /\ result.initialCoverage < options.targetCoverage
    /\ result.finalCoverage < 100

\* the body loop is about to look for insertion points and there are none
NoInsertionPoint ==
    /\ pc = "BodyPass"
    /\ termIdx <= Len(termsToInject)
    /\ findSemanticInsertionPoints(doc, termsToInject[termIdx], insertionCounts) = <<>>

\* C14: when the locator returns no insertion point for a term, the term is
\* appended to termsFailed, the document is unchanged by the attempt, and
\* the body loop goes on with the next term of the work list.
C14_UnplaceableTermRecorded ==
    [][(BodyAttempt /\ NoInsertionPoint) =>
         /\ termsFailed' = Append(termsFailed, termsToInject[termIdx].term)
         /\ doc' = doc
         /\ termsAdded' = termsAdded
         /\ pc' = "BodyPass"
         /\ termIdx' = termIdx + 1
         /\ termsToInject' = termsToInject]_vars

\* a run in which a term failed for want of an insertion point and the
\* term after it was inserted
C14_Witness ==
    /\ pc = "Finalized"
    /\ Len(termsFailed) > 0
    /\ termIdx > 2
    /\ termsToInject[termIdx - 2].term = termsFailed[Len(termsFailed)]
    /\ termsToInject[termIdx - 1].term = termsAdded[Len(termsAdded)]

\* the headings of the run whose text is no longer the text they were
\* parsed with
rewrittenHeadings ==
    {j \in 1..Len(headings) :
        textContent(doc, indexOfElement(doc, headings[j]))
          # textContent(parseFromString(html, 1),
                        indexOfElement(parseFromString(html, 1), headings[j]))}

\* C15: within one header pass no heading is rewritten for more than one
\* term: every injection of the pass has rewritten a heading of its own.
C15_OneTermPerHeading ==
    pc = "HeaderPass" => Cardinality(rewrittenHeadings) = Len(headerInjected)

\* a step of the header pass that rewrites a heading
HeadingRewrite == pc = "HeaderPass" /\ headerInjected' # headerInjected

\* the term the header pass examines next
examinedTerm == sortedTerms[headerIdx]

headingTextOf(d, j) == textContent(d, indexOfElement(d, headings[j]))

\* the term has a word of more than 3 characters that the heading text holds
sharesLongWord(text, termText) ==
    \E w \in Range(splitWhitespace(toLowerCase(termText))) :
        Len(w) > 3 /\ includes(toLowerCase(text), w)

\* C16: a heading is rewritten for a term only if its text does not contain
\* the term, is at most 80 characters long, and shares a word of more than 3
\* characters with the term unless the term's importance (50 when absent)
\* is at least 90.
C16_HeadingAcceptability ==
    [][HeadingRewrite =>
         \A j \in 1..Len(headings) :
            headingTextOf(doc', j) # headingTextOf(doc, j) =>
              /\ ~includes(toLowerCase(headingTextOf(doc, j)), toLowerCase(examinedTerm.term))
              /\ Len(headingTextOf(doc, j)) <= 80
              /\ \/ sharesLongWord(headingTextOf(doc, j), examinedTerm.term)
                 \/ importanceOr50(examinedTerm) >= 90]_vars

\* the header pass of the run is over
HeaderPassOver == pc \in {"BodyPass", "Finalized"}

\* min(5, ceil(maxInsertions * 0.2))
budgetOfHeaderPass ==
    LET fifth == CHOOSE n \in 0..options.maxInsertions :
                    5 * n >= options.maxInsertions /\ 5 * (n - 1) < options.maxInsertions
    IN  IF fifth < 5 THEN fifth ELSE 5

\* the missing terms of category header or title
headerCandidates ==
    SelectSeq(analysis.missingTerms, LAMBDA t : t.type \in {"header", "title"})

\* the texts of the h2 and h3 elements of the input
inputHeadingTexts ==
    LET parsed == parseFromString(html, 1)
    IN  {textContent(parsed, h) : h \in Range(querySelectorAll(parsed, {"H2", "H3"}))}

\* candidate i is a title term of importance >= 90 and some input heading
\* of at most 80 characters does not contain it
forcedTitleCandidate(i) ==
    /\ headerCandidates[i].type = "title"
    /\ "importance" \in DOMAIN headerCandidates[i]
    /\ headerCandidates[i].importance >= 90
    /\ \E text \in inputHeadingTexts :
          /\ Len(text) <= 80
          /\ ~includes(toLowerCase(text), toLowerCase(headerCandidates[i].term))

\* the term of candidate i was injected and a heading holds it
writtenIntoHeading(i) ==
    /\ headerCandidates[i].term \in Range(headerInjected)
    /\ \E j \in 1..Len(headings) :
          includes(headingTextOf(doc, j), headerCandidates[i].term)

headerPassRan == HeaderPassOver /\ options.injectHeaders /\ budgetOfHeaderPass >= 1

\* C17 as amended: when the header pass has run with a budget of at least 1,
\* a missing title term of importance >= 90 whose importance is higher than
\* that of every other header candidate is written into a heading, provided
\* some h2/h3 of at most 80 characters does not already contain it.
C17_ForcedTitleTermStrictlyHighest ==
    headerPassRan =>
      \A i \in 1..Len(headerCandidates) :
         ( /\ forcedTitleCandidate(i)
           /\ \A k \in 1..Len(headerCandidates) :
                 k # i => importanceOr50(headerCandidates[k]) < headerCandidates[i].importance )
         => writtenIntoHeading(i)

\* C17 as stated: the same for a title term that no other header candidate
\* exceeds in importance.
C17_ForcedTitleTermHighest ==
    headerPassRan =>
      \A i \in 1..Len(headerCandidates) :
         ( /\ forcedTitleCandidate(i)
           /\ \A k \in 1..Len(headerCandidates) :
                 importanceOr50(headerCandidates[k]) <= headerCandidates[i].importance )
         => writtenIntoHeading(i)

\* a title term of importance 90 that shares no word with any heading and
\* follows a less important candidate in the input has been written
C17_Witness ==
    /\ headerPassRan
    /\ \E i \in 2..Len(headerCandidates) :
          /\ forcedTitleCandidate(i)
          /\ headerCandidates[i].importance = 90
          /\ \A k \in 1..Len(headerCandidates) :
                k # i => importanceOr50(headerCandidates[k]) < 90
          /\ \A text \in inputHeadingTexts :
                ~sharesLongWord(text, headerCandidates[i].term)
          /\ writtenIntoHeading(i)

\* the heading injections the run has recorded
headingInjections ==
    Cardinality({j \in 1..Len(insertionDetails) : insertionDetails[j].location = "heading"})

\* C18: the header pass performs at most min(5, ceil(maxInsertions * 0.2))
\* heading injections, and once that many have succeeded no further term is
\* examined.
C18_HeaderBudget ==
    /\ [](/\ Len(headerInjected) <= budgetOfHeaderPass
          /\ headingInjections <= budgetOfHeaderPass)
    /\ [][(pc = "HeaderPass" /\ Len(headerInjected) >= budgetOfHeaderPass) =>
            (headerIdx' = headerIdx /\ headerInjected' = headerInjected /\ doc' = doc)]_vars

\* five injections were made out of a fifth of 6, and the next term, which
\* a heading could still take, was not examined
C18_Witness ==
    /\ HeaderPassOver
    /\ options.maxInsertions > 25
    /\ Len(headerInjected) = 5 /\ headingInjections = 5
    /\ headerIdx <= Len(sortedTerms)
    /\ \E j \in 1..Len(headings) :
          /\ Len(headingTextOf(doc, j)) <= 80
          /\ ~includes(toLowerCase(headingTextOf(doc, j)), toLowerCase(examinedTerm.term))
          /\ importanceOr50(examinedTerm) >= 90

\* the importance of a term, an absent one counted as 50
statedImportance(t) == IF "importance" \in DOMAIN t THEN t.importance ELSE 50

\* the work list has been built
WorkListBuilt == pc \in {"HeaderPass", "BodyPass", "Finalized"}

\* C19: with prioritization enabled every term of the work list with
\* importance >= 80 comes before every term with importance < 80 and each of
\* the two groups is in non-increasing importance (absent counted as 50);
\* with prioritization disabled the work list is the missing terms in the
\* order of the input list.  (The body pass attempts termsToInject from its
\* first term to its last.)
C19_PriorityOrder ==
    WorkListBuilt =>
      IF options.prioritizeCritical
      THEN \A i, j \in 1..Len(termsToInject) :
              i < j =>
                /\ statedImportance(termsToInject[i]) >= 80
                     \/ statedImportance(termsToInject[j]) < 80
                /\ (statedImportance(termsToInject[i]) >= 80
                      <=> statedImportance(termsToInject[j]) >= 80)
                     => statedImportance(termsToInject[i])
                          >= statedImportance(termsToInject[j])
      ELSE termsToInject =
             SelectSeq(neuronTerms,
               LAMBDA t : /\ t \in Range(analysis.missingTerms)
                          /\ t.term \notin Range(termsAdded) \cap Range(headerInjected))

\* heading j is acceptable for the term: it does not contain the term, has
\* at most 80 characters, and shares a word with the term or the term's
\* importance is at least 90
acceptablePairing(j, term) ==
    /\ ~includes(toLowerCase(headingTextOf(doc, j)), toLowerCase(term.term))
    /\ Len(headingTextOf(doc, j)) <= 80
    /\ \/ sharesLongWord(headingTextOf(doc, j), term.term)
       \/ statedImportance(term) >= 90

\* C20: whatever the coverage, a term the header pass examines is injected
\* when a heading is acceptable for it, and the header pass ends only when
\* every header term has been examined or the header budget is spent.
C20_HeaderPassIgnoresTarget ==
    /\ [][(/\ pc = "HeaderPass" /\ headerIdx' = headerIdx + 1
           /\ \E j \in 1..Len(headings) : acceptablePairing(j, examinedTerm))
          => /\ headerInjected' = Append(headerInjected, examinedTerm.term)
             /\ \E j \in 1..Len(headings) :
                   includes(headingTextOf(doc', j), examinedTerm.term)]_vars
    /\ [][(pc = "HeaderPass" /\ pc' = "BodyPass")
          => \/ Len(headings) = 0
             \/ headerIdx > Len(sortedTerms)
             \/ Len(headerInjected) >= budgetOfHeaderPass]_vars

\* the last header injection was made although the injections before it
\* had raised the raw coverage to the target
C20_Witness ==
    /\ pc = "HeaderPass"
    /\ Len(headerInjected) >= 2
    /\ liveScore >= options.targetCoverage
    /\ RoundPercent(Len(analysis.usedTerms) + Len(headerInjected) - 1, Len(neuronTerms))
         >= options.targetCoverage
    /\ \A j \in 1..Len(headerInjected) :
          \E k \in 1..Len(analysis.missingTerms) :
             analysis.missingTerms[k].term = headerInjected[j]

\* the moves of the run state machine
RunMoves ==
    { <<"Initialized", "EarlyExit">>, <<"Initialized", "HeaderPass">>,
      <<"HeaderPass", "BodyPass">>, <<"BodyPass", "Finalized">> }

\* a step of the body pass that settles a term
BodySettles ==
    /\ pc = "BodyPass"
    /\ termsAdded' # termsAdded \/ termsFailed' # termsFailed \/ doc' # doc

RunTerminated == pc \in {"EarlyExit", "Finalized"}

\* the statement the run stands at comes to an end: the analysis it calls
\* returns (the loops of the header pass and of the body pass are loops over
\* finite lists)
RunProceeds ==
    \/ pc = "HeaderPass"
    \/ pc = "Initialized" /\ analysisReturns(html, neuronTerms)
    \/ /\ pc = "BodyPass"
       /\ analysisReturns(plainMarkup(doc), neuronTerms)
       /\ analysisReturns(finalHtmlOf(doc), neuronTerms)

\* the distance a run has covered: its phase, then the terms examined
PhaseRank ==
    CASE pc = "Initialized" -> 0
      [] pc = "HeaderPass" -> 1
      [] pc = "BodyPass" -> 2
      [] OTHER -> 3

RunProgress == PhaseRank * (2 * Len(neuronTerms) + 2) + headerIdx + termIdx

\* the order of the phases
RunStateMachineOrder ==
    /\ [][(pc' # pc) => (<<pc, pc'>> \in RunMoves)]_vars
    /\ [][(pc = "BodyPass" \/ pc = "Finalized") =>
            /\ headerInjected' = headerInjected
            /\ \A j \in 1..Len(headings) : headingTextOf(doc', j) = headingTextOf(doc, j)]_vars
    /\ [](pc = "EarlyExit" =>
            doc = <<>> /\ result.html = html /\ result.termsAdded = <<>>)
    /\ [][BodySettles =>
            /\ termIdx' = termIdx + 1
            /\ termsToInject' = termsToInject
            /\ \/ termsAdded' = Append(termsAdded, termsToInject[termIdx].term)
               \/ termsFailed' = Append(termsFailed, termsToInject[termIdx].term)]_vars

\* every step brings the run nearer to its end, of which it is at most
\* 3 * (2 * |terms| + 2) + 2 * |terms| + 2 steps away at the start
RunAdvances ==
    /\ [][RunProgress' > RunProgress]_vars
    /\ [](RunProgress <= 4 * (2 * Len(neuronTerms) + 2))

\* C21: a run moves Initialized -> EarlyExit or Initialized -> HeaderPass ->
\* BodyPass -> Finalized, in that order only; no heading is rewritten once
\* the body pass has begun, the EarlyExit path does not touch the document,
\* the body pass attempts each term of the work list at most once, and every
\* run reaches EarlyExit or Finalized: every step advances the run, and a
\* run that has not reached EarlyExit or Finalized has a step to take.
C21_RunStateMachine ==
    /\ RunStateMachineOrder
    /\ RunAdvances
    /\ [](RunTerminated \/ RunProceeds)

(***************************************************************************)
(* Properties of the processing lock                                       *)
(***************************************************************************)
\* a call of acquireLock has returned
AcquireReturns == lockReturn' # lockReturn

\* the lock is held and was acquired less than 10 minutes ago
HeldAndYoung == processingLock.isLocked /\ now - processingLock.lockedAt < 600000

\* C22: while the lock is held and less than 10 minutes old, every call of
\* acquireLock, by the holder as by any other caller, returns false and
\* leaves processingLock unchanged; a call returns true only when the lock
\* is free or at least 10 minutes old, and then records the caller as holder.
C22_ProcessingLockExclusion ==
    /\ [][(AcquireReturns /\ HeldAndYoung) =>
            (lockReturn'.value = FALSE /\ processingLock' = processingLock)]_vars
    /\ [][(AcquireReturns /\ lockReturn'.value = TRUE) =>
            /\ ~processingLock.isLocked \/ now - processingLock.lockedAt >= 600000
            /\ processingLock' = [isLocked |-> TRUE, lockedAt |-> now,
                                  lockedBy |-> lockReturn'.caller]]_vars
    /\ [](processingLock.isLocked =>
            /\ processingLock.lockedBy \in LockCallers
            /\ processingLock.lockedAt <= now)

\* the holder itself was refused one millisecond before the lock became stale
C22_Witness ==
    /\ processingLock.isLocked
    /\ lockReturn.value = FALSE
    /\ lockReturn.caller = processingLock.lockedBy
    /\ lockReturn.at = now
    /\ now - processingLock.lockedAt = 599999

\* a call of releaseLock has been made
ReleaseCalled == releaseCall' # releaseCall

\* C31: releaseLock(X) called while the lock is held by another caller
\* leaves processingLock unchanged; releaseLock by the holder, or on a free
\* lock, leaves the lock free.
C31_ReleaseIsOwnerOnly ==
    [][ReleaseCalled =>
          IF processingLock.isLocked /\ processingLock.lockedBy # releaseCall'.caller
          THEN processingLock' = processingLock
          ELSE processingLock' = [isLocked |-> FALSE, lockedAt |-> 0, lockedBy |-> "null"]
      ]_vars

\* B holds a lock taken 10 minutes after the first instant or later, and
\* a releaseLock of A made after B took it has left it in place
C31_Witness ==
    /\ processingLock.isLocked
    /\ processingLock.lockedBy = "B"
    /\ processingLock.lockedAt >= FirstInstant + 600000
    /\ releaseCall.caller = "A"
    /\ releaseCall.at > processingLock.lockedAt

(***************************************************************************)
(* Properties of the request deduplication                                 *)
(***************************************************************************)
\* the requests of a key that have not settled
unsettled(key) ==
    {id \in 1..Len(promises) : promises[id].key = key /\ promises[id].state = "pending"}

\* a call of dedupeRequest has returned
DedupeReturns == dedupeReturn'.call = dedupeReturn.call + 1

\* isRequestInflight(key)
isRequestInflight(key) == key \in DOMAIN inflightRequests

LocatorCalled == pc = "BodyPass" /\ termIdx <= Len(termsToInject)

\* the insertion points of the term at hand in the document as it stands
pointsNow == findSemanticInsertionPoints(doc, termsToInject[termIdx], insertionCounts)

blockTextOf(point) == textContent(doc, indexOfElement(doc, point.element))

\* C24: every insertion point the locator returns for a term refers to a
\* block of 80 to 600 characters whose lowercased text does not contain the
\* lowercased term, and has a score of at least 10; the list is in
\* non-increasing order of score.
C24_LocatorPostcondition ==
    LocatorCalled =>
      \A k \in 1..Len(pointsNow) :
         /\ Len(blockTextOf(pointsNow[k])) >= 80
         /\ Len(blockTextOf(pointsNow[k])) <= 600
         /\ ~includes(toLowerCase(blockTextOf(pointsNow[k])),
                      toLowerCase(termsToInject[termIdx].term))
         /\ pointsNow[k].insertionScore >= 10
         /\ k < Len(pointsNow) =>
              pointsNow[k].insertionScore >= pointsNow[k + 1].insertionScore

\* the locator returns two points, the better of which comes later in the
\* document, and passes over a block that is too long, a block that holds
\* no related term and a block that comes first in the document
C24_Witness ==
    /\ LocatorCalled
    /\ Len(pointsNow) = 2
    /\ pointsNow[1].insertionScore > pointsNow[2].insertionScore
    /\ indexOfElement(doc, pointsNow[1].element) > indexOfElement(doc, pointsNow[2].element)
    /\ \E i \in Range(querySelectorAll(doc, {"P"})) : Len(textContent(doc, i)) > 600
    /\ Len(querySelectorAll(doc, {"P"})) = 4

\* the number of sentence-ending punctuation marks of a text
sentenceEndMarks(text) ==
    Cardinality({i \in 1..Len(text) : charAt(text, i) \in SentenceTerminators})

\* the words of the term at hand, and the related terms of the term
termWordsNow == splitWhitespace(toLowerCase(termsToInject[termIdx].term))

relatedNow == getRelatedTerms(toLowerCase(termsToInject[termIdx].term))

\* C25: the score of a candidate block for a term is 15 times the number
\* of related terms found in the block's text, plus 10 for each word of the
\* term longer than 3 characters found in the text, plus 5 if and only if
\* the block contains at least two sentence-ending punctuation marks.
C25_RelevanceScoreFormula ==
    LocatorCalled =>
      \A k \in 1..Len(pointsNow) :
         pointsNow[k].insertionScore =
            15 * Cardinality({r \in relatedNow :
                    includes(toLowerCase(blockTextOf(pointsNow[k])), r)})
            + 10 * Cardinality({j \in 1..Len(termWordsNow) :
                    /\ Len(termWordsNow[j]) > 3
                    /\ includes(toLowerCase(blockTextOf(pointsNow[k])), termWordsNow[j])})
            + (IF sentenceEndMarks(blockTextOf(pointsNow[k])) >= 2 THEN 5 ELSE 0)

(***************************************************************************)
(* Properties of insertTermNaturally                                       *)
(***************************************************************************)
\* the frames of a category, as the strings insertionDetails records
framesOf(category) ==
    {INSERTION_TEMPLATES[category][n].pre \o "{term}" \o INSERTION_TEMPLATES[category][n].post :
        n \in 1..Len(INSERTION_TEMPLATES[category])}

\* the categories the stated rules allow for a term at an insertion point
statedCategories(term, point) ==
    CASE term.type = "title" \/ term.type = "header" -> {"importance", "definition"}
      [] OTHER ->
         CASE Cardinality(point.relatedTerms) >= 2 -> {"example"}
           [] OTHER ->
              CASE point.position = "start" -> {"action"}
                [] point.position = "end" -> {"transition"}
                [] OTHER -> {"definition", "importance", "example", "comparison",
                             "action", "transition", "expert"}

\* C26: for every body insertion the recorded template is one of the
\* frames of the category the first matching rule selects: term type title
\* or header gives importance or definition, otherwise at least 2 related
\* terms matched at the insertion point gives example, otherwise position
\* start gives action, otherwise position end gives transition, otherwise
\* any of the seven categories.
C26_TemplateCategoryPolicy ==
    [][BodyInsertion =>
         \E category \in statedCategories(termsToInject[termIdx], pointsNow[1]) :
            insertionDetails'[Len(insertionDetails')].template \in framesOf(category)]_vars

\* a run inserted one term with a frame that only the last rule can select
\* and then another term with a transition frame
C26_Witness ==
    /\ pc = "BodyPass"
    /\ Len(insertionDetails) = 2
    /\ insertionDetails[1].location = "paragraph"
    /\ insertionDetails[1].template \in framesOf("expert")
    /\ insertionDetails[2].location = "paragraph"
    /\ insertionDetails[2].template \in framesOf("transition")

\* the words of a text and the tags of merged markup, in order
wordsOfMerged(mm) ==
    Flatten([i \in 1..Len(mm) |->
        IF mm[i].k = "text"
        THEN SelectSeq(splitWhitespace(mm[i].v), LAMBDA w : w # "")
        ELSE << "<" \o mm[i].k \o " " \o mm[i].v \o ">" >>])

\* the content of markup without regard to white space: its tags and the
\* words of its text, in order
wordsOfMarkup(m) == wordsOfMerged(mergeText(m))

\* the number of chunks the stated placement leaves in front of the new
\* sentence
statedSlot(position, n) ==
    CASE position = "end" \/ n = 1 -> n
      [] position = "start" /\ n > 1 -> 0
      [] OTHER -> n \div 2

\* the new sentence of a recorded frame for a term
sentenceOf(frame, termText) ==
    LET tpl == CHOOSE t \in UNION {SeqToSet(INSERTION_TEMPLATES[c]) :
                                      c \in SeqToSet(TemplateCategories)} :
                   t.pre \o "{term}" \o t.post = frame
    IN  insertionTextOf(tpl, termText)

\* C27: a body insertion keeps every sentence chunk of the block in its
\* original order and adds exactly one new sentence: after the last chunk
\* when the position is end or the block has one chunk, before the first
\* chunk when the position is start, and between chunk floor(n/2) and the
\* next when the position is middle and the block has n >= 2 chunks.
C27_SplicePlacement ==
    [][BodyInsertion =>
         \E point \in {pointsNow[1]} :
         \E chunks \in {splitSentences(innerHTML(doc, indexOfElement(doc, point.element)),
                                       <<>>, <<>>)} :
         \E slot \in {statedSlot(point.position, Len(chunks))} :
         \E newSentence \in {sentenceOf(insertionDetails'[Len(insertionDetails')].template,
                                        termsToInject[termIdx].term)} :
            wordsOfMarkup(innerHTML(doc', indexOfElement(doc', point.element)))
              = Flatten([j \in 1..slot |-> wordsOfMarkup(chunks[j])])
                \o wordsOfMarkup(newSentence)
                \o Flatten([j \in 1..(Len(chunks) - slot) |->
                               wordsOfMarkup(chunks[slot + j])])]_vars

\* a term went into the middle of a block of four chunks, the first two
\* chunks in front of it and an inline element open across it
C27_Witness ==
    /\ pc = "BodyPass"
    /\ lastBlock # 0
    /\ Len(termsAdded) = 1
    /\ LET inner == innerHTML(doc, indexOfElement(doc, lastBlock))
       IN  \E a, b, c \in 1..Len(inner) :
              /\ a < b /\ b < c
              /\ inner[a].k = "open" /\ inner[a].v = "EM"
              /\ inner[b].k = "open" /\ inner[b].v = "STRONG"
              /\ inner[c].k = "close" /\ inner[c].v = "EM"
              /\ inner[1].k = "text" /\ includes(inner[1].v, "morning.")
              /\ inner[Len(inner)].k = "text" /\ includes(inner[Len(inner)].v, "house.")

(***************************************************************************)
(* Properties of the bookkeeping of injectMissingNLPTerms                  *)
(***************************************************************************)
\* the term texts of the input list are pairwise distinct
DistinctTermTexts ==
    \A i, j \in 1..Len(neuronTerms) :
       i # j => neuronTerms[i].term # neuronTerms[j].term

noRepeat(seq) == \A i, j \in 1..Len(seq) : i # j => seq[i] # seq[j]

\* the term texts the body pass has attempted so far
bodyAttempted == {termsToInject[i].term : i \in 1..(termIdx - 1)}

\* C28: for a term list with pairwise distinct term texts, a term the
\* header pass injected is not in the work list of the body pass and is
\* never attempted there, every header success is reported with location
\* 'heading' and contextScore 100, and no term text appears twice in
\* termsAdded, twice in termsFailed, or in both lists.
C28_TermSettledAtMostOnce ==
    (DistinctTermTexts /\ (pc = "BodyPass" \/ pc = "Finalized")) =>
       /\ \A k \in 1..Len(headerInjected) :
             /\ \A i \in 1..Len(termsToInject) : termsToInject[i].term # headerInjected[k]
             /\ headerInjected[k] \notin bodyAttempted
             /\ k <= Len(insertionDetails)
             /\ insertionDetails[k].term = headerInjected[k]
             /\ insertionDetails[k].location = "heading"
             /\ insertionDetails[k].contextScore = 100
       /\ \A k \in 1..Len(insertionDetails) :
             insertionDetails[k].location = "heading" =>
                k <= Len(headerInjected)
       /\ noRepeat(termsAdded)
       /\ noRepeat(termsFailed)
       /\ Range(termsAdded) \cap Range(termsFailed) = {}
       /\ pc = "Finalized" =>
             /\ result.termsAdded = termsAdded
             /\ result.termsFailed = termsFailed

\* a finished run of distinct terms with a header success and, after it,
\* a body success
C28_Witness ==
    /\ pc = "Finalized"
    /\ DistinctTermTexts
    /\ Len(headerInjected) > 0
    /\ Len(result.termsAdded) > Len(headerInjected)
    /\ termIdx > 1

\* the term texts an analysis reports as used
usedTexts(a) == {a.usedTerms[i].term : i \in 1..Len(a.usedTerms)}

\* C29: for every run of injectMissingNLPTerms the final coverage is at
\* least the initial coverage, and no term that was used in the input
\* content is missing from the returned content.
C29_CoverageNeverDecreases ==
    pc = "Finalized" =>
       /\ result.finalCoverage >= result.initialCoverage
       /\ \E finalAnalysis \in {analyzeNLPCoverage(result.html, neuronTerms)} :
             usedTexts(analysis) \subseteq usedTexts(finalAnalysis)

\* C30: a term is recorded in termsFailed only when the locator returned
\* no insertion point for it; whenever there is an insertion point the
\* term is recorded in termsAdded, one insertionDetails entry is appended
\* for it and the saturation counter of the selected block grows by
\* exactly 1, no other counter changing.
C30_FailureOnlyWithoutCandidates ==
    [][/\ termsFailed' # termsFailed =>
            /\ BodyAttempt
            /\ Len(pointsNow) = 0
            /\ termsFailed' = Append(termsFailed, termsToInject[termIdx].term)
       /\ BodyAttempt =>
            \E points \in {pointsNow} :
               IF Len(points) = 0
               THEN /\ termsFailed' = Append(termsFailed, termsToInject[termIdx].term)
                    /\ termsAdded' = termsAdded
                    /\ insertionDetails' = insertionDetails
                    /\ insertionCounts' = insertionCounts
               ELSE /\ termsFailed' = termsFailed
                    /\ termsAdded' = Append(termsAdded, termsToInject[termIdx].term)
                    /\ Len(insertionDetails') = Len(insertionDetails) + 1
                    /\ SubSeq(insertionDetails', 1, Len(insertionDetails)) = insertionDetails
                    /\ insertionDetails'[Len(insertionDetails')].term
                          = termsToInject[termIdx].term
                    /\ insertionsOf(insertionCounts', points[1].element)
                          = insertionsOf(insertionCounts, points[1].element) + 1
                    /\ \A e \in (DOMAIN insertionCounts \cup DOMAIN insertionCounts')
                                   \ {points[1].element} :
                          insertionsOf(insertionCounts', e) = insertionsOf(insertionCounts, e)
      ]_vars

\* a run has recorded a failed term and a body insertion, the counter of
\* the selected block standing at 1 or more
C30_Witness ==
    /\ pc = "BodyPass"
    /\ Len(termsFailed) > 0
    /\ lastBlock # 0
    /\ insertionsOf(insertionCounts, lastBlock) >= 1
    /\ Len(insertionDetails) > 0
    /\ insertionDetails[Len(insertionDetails)].term = termsAdded[Len(termsAdded)]
    /\ insertionDetails[Len(insertionDetails)].location # "heading"

(***************************************************************************)
(* Properties of RateLimitedQueue                                          *)
(***************************************************************************)
\* the queue starts a request: execute() is called
RequestStarts == Len(started') = Len(started) + 1

\* the requests that wait in the queue
waiting == {i \in 1..Len(requests) : requests[i].state = "waiting"}

\* C32: whenever the queue starts a request, every request still waiting
\* has a lower priority, or the same priority and a later enqueue.
C32_QueuePriorityOrder ==
    [][RequestStarts =>
          \A i \in 1..Len(requests') :
             requests'[i].state = "waiting" =>
                \/ requests'[i].priority
                      < requests'[started'[Len(started')].id].priority
                \/ /\ requests'[i].priority
                         = requests'[started'[Len(started')].id].priority
                   /\ i > started'[Len(started')].id]_vars

\* the third request was started ahead of the second, which has a lower
\* priority and still waits, and after the first, which has its priority
C32_Witness ==
    /\ Len(requests) = 3
    /\ Len(started) = 2
    /\ started[1].id = 1 /\ started[2].id = 3
    /\ requests[1].priority = requests[3].priority
    /\ requests[2].priority < requests[3].priority
    /\ requests[2].state = "waiting"

\* the requests whose execute function has been called and has not settled
executing == {i \in 1..Len(requests) : requests[i].state = "executing"}

\* C33: the queue never has more than one request executing, and every
\* request started before the last started one has settled with its own
\* outcome before that one was started.
C33_QueueSerialExecution ==
    /\ Cardinality(executing) <= 1
    /\ \A k \in 1..(Len(started) - 1) :
          /\ requests[started[k].id].state \in {"resolved", "rejected"}
          /\ started[k].at <= started[k + 1].at
    /\ executing # {} => executing = {started[Len(started)].id}

\* the second started request executes, the first has failed, and a
\* request enqueued between the two was rejected by clear
C33_Witness ==
    /\ Len(started) = 2
    /\ started[1].id = 1 /\ started[2].id = 3
    /\ requests[1].state = "rejected"
    /\ requests[2].state = "cleared"
    /\ requests[3].state = "executing"

\* C34: if every execute function settles and every timer fires, every
\* request passed to enqueue eventually has its promise settled: resolved,
\* rejected with its own error, or rejected by clear.
C34_QueueLiveness ==
    \A i \in 1..MaxEnqueues :
       (Len(requests) >= i) ~> (Len(requests) >= i /\ requests[i].state \in Settled)

\* clear() has been called
ClearCalled == clears' = clears + 1

\* C35: clear() rejects every waiting request with 'Queue cleared' and
\* leaves the queue empty; a request it rejected is never executed; a
\* request that is executing when clear() is called is not affected and
\* settles with its own outcome.
C35_QueueClear ==
    /\ [][ClearCalled =>
            /\ queue' = <<>>
            /\ Len(requests') = Len(requests)
            /\ \A i \in 1..Len(requests) :
                  IF requests[i].state = "waiting"
                  THEN requests'[i].state = "cleared"
                  ELSE requests'[i] = requests[i]]_vars
    /\ [][\A i \in 1..Len(requests) :
            /\ requests[i].state = "cleared" => requests'[i].state = "cleared"
            /\ requests[i].state = "executing" =>
                  requests'[i].state \in {"executing", "resolved", "rejected"}]_vars
    /\ [](\A k \in 1..Len(started) : requests[started[k].id].state # "cleared")

\* clear() was called while the first request was executing and two
\* requests were waiting
C35_Witness ==
    /\ clears = 1
    /\ Len(requests) = 3
    /\ requests[1].state = "executing"
    /\ requests[2].state = "cleared"
    /\ requests[3].state = "cleared"
    /\ queue = <<>>

\* the requests started in the rate window that began at instant w
startedInWindow(w) == {k \in 1..Len(started) : started[k].window = w}

\* C36: within one rate window at most maxRequestsPerMinute requests are
\* started, a window is reset no sooner than 60 seconds after its start,
\* and a request is started only while the count of the window is below
\* the limit, so a request over the limit stays queued until the reset.
C36_QueueRateLimit ==
    /\ [](\A k \in 1..Len(started) :
             Cardinality(startedInWindow(started[k].window)) <= maxRequestsPerMinute)
    /\ [][windowStart' # windowStart =>
             /\ windowStart' - windowStart >= 60000
             /\ windowStart' = now'
             /\ requestCount' <= 1]_vars
    /\ [][RequestStarts =>
             /\ started'[Len(started')].window = windowStart'
             /\ Cardinality(startedInWindow(windowStart')) < maxRequestsPerMinute]_vars

\* two requests were started in the first window; the third waited out
\* the window and was started 100 ms after its end, in a new window
C36_Witness ==
    /\ Len(started) = 3
    /\ started[1].window = FirstInstant
    /\ started[2].window = FirstInstant
    /\ started[3].window = FirstInstant + 60100
    /\ started[3].at = FirstInstant + 60100

(***************************************************************************)
(* Properties of pollNeuronQuery                                           *)
(***************************************************************************)
\* a poll has been made
Polled == Len(pollResponses') = Len(pollResponses) + 1

\* the response of the poll just made
polledData == pollResponses'[Len(pollResponses')]

\* C37: a poll response with status 'not found' or 'error' makes
\* pollNeuronQuery fail with the corresponding error and poll no more; the
\* first response with status 'ready' makes it return; after maxAttempts
\* polls without a 'ready' response it fails with the timeout error.
C37_PollErrorStatusesAbort ==
    /\ [][(Polled /\ polledData.kind = "data" /\ polledData.status = "not found") =>
            /\ pollState' = "failed"
            /\ pollError' = "NeuronWriter query not found or expired"]_vars
    /\ [][(Polled /\ polledData.kind = "data" /\ polledData.status = "error") =>
            /\ pollState' = "failed"
            /\ includes(pollError', "NeuronWriter analysis error: ")]_vars
    /\ [][(Polled /\ polledData.kind = "data" /\ polledData.status = "ready") =>
            pollState' = "returned"]_vars
    /\ [][Polled => pollState = "polling"]_vars
    /\ [](Len(pollResponses) <= maxAttempts)
    /\ []((/\ Len(pollResponses) = maxAttempts
           /\ \A k \in 1..maxAttempts : pollResponses[k].status \notin {"ready", "not found", "error"})
          => (/\ pollState = "failed"
              /\ pollError = "NeuronWriter: Query polling timed out after 3 attempts"))

(***************************************************************************)
(* Properties of the semantic cache                                        *)
(***************************************************************************)
SetCalled == cacheWrites' = cacheWrites + 1

Entries(entries) == {entries[i] : i \in 1..Len(entries)}

\* the entries of the type written, once the entry is assigned and before
\* any is removed
entriesWithWrite(written) ==
    {e \in Entries(semanticCache[cacheCall'.type]) : e.key # written.key}
    \cup {written}

\* the entry that the call of setSemanticCache writes
writtenEntry ==
    [key |-> normalizedKey(cacheCall'.key), data |-> cacheCall'.data, timestamp |-> now]

\* every type holds at most 100 entries
CacheBounded == \A type \in CacheTypes : Len(semanticCache[type]) <= 100

\* a write that makes a type exceed 100 entries leaves the 80 entries with
\* the most recent timestamps
TrimKeepsMostRecent ==
    [][SetCalled =>
         \E written \in {writtenEntry} :
         \E before \in {entriesWithWrite(written)} :
            Cardinality(before) > 100 =>
               \E kept \in {Entries(semanticCache'[cacheCall'.type])} :
                  /\ Cardinality(kept) = 80
                  /\ Len(semanticCache'[cacheCall'.type]) = 80
                  /\ kept \subseteq before
                  /\ \A e \in kept, d \in before \ kept : e.timestamp >= d.timestamp]_vars

\* the entry just written is in the cache
WrittenIsKept ==
    [][SetCalled => writtenEntry \in Entries(semanticCache'[cacheCall'.type])]_vars

\* getSemanticCache right after setSemanticCache, same type and key
ReadAfterWrite ==
    /\ cacheCall.op = "set"
    /\ cacheCall'.op = "get"
    /\ cacheCall'.type = cacheCall.type
    /\ cacheCall'.key = cacheCall.key

\* C38: every cache type holds at most 100 entries; a write that makes a
\* type exceed 100 entries trims it to the 80 entries with the most recent
\* timestamps, the entry just written among them, and getSemanticCache with
\* the same key right after a write returns the data written.
C38_SemanticCacheBound ==
    /\ []CacheBounded
    /\ TrimKeepsMostRecent
    /\ WrittenIsKept
    /\ [][ReadAfterWrite => cacheCall'.data = cacheCall.data]_vars

====
